---- MODULE Spec2Model ----
(***************************************************************************)
(* The podcast pipeline of AllInApp.  Its centre is the context-retrieval  *)
(* subsystem: build_context of src/AllInApp/nlp_analysis.py, which loads a *)
(* FAISS index file and a JSON ledger file, searches the index for         *)
(* neighbours of the new lessons, appends the new lessons to both and      *)
(* writes both files back.  Around it: extract_lessons, generate_tts,      *)
(* fetch_latest_episode, run_pipeline and its Celery task, and the legacy  *)
(* scripts of src/.                                                        *)
(*                                                                         *)
(* One action models one whole call (for run_pipeline: one whole step).    *)
(* The files are the persistent state; a record per function holds what    *)
(* its last call saw, did and returned.                                    *)
(*                                                                         *)
(* Eight specifications share the variables:                               *)
(*   Spec         calls of build_context, one after the other;             *)
(*   SpecExtract  calls of extract_lessons;                                *)
(*   SpecPipe     pipeline runs submitted from the GUI and executed by the *)
(*                processes of a Celery worker;                            *)
(*   SpecTTS      calls of generate_tts;                                   *)
(*   SpecFeed     calls of fetch_latest_episode on one processed-IDs file; *)
(*   SpecRun      runs of run_pipeline inside execute_podcast_pipeline;    *)
(*   SpecLegacyContext  calls of the legacy NLPAnalyzer.build_context;     *)
(*   SpecLegacyMain     runs of the legacy main().                         *)
(***************************************************************************)
EXTENDS Integers, Sequences, FiniteSets, TLC

VARIABLES
    indexFile,    \* the file at faiss_index_path
    ledgerFile,   \* the file at past_lessons_json_path
    call,         \* the last build_context call: arguments, steps taken, result
    hist,         \* history of the calls made since the empty store
    extraction,   \* the last extract_lessons call: arguments and result
    celery,       \* the task queue and the processes of the Celery worker
    tts,          \* the last generate_tts call: arguments, calls made, output
    rss,          \* the processed-IDs file and the fetch_latest_episode calls
    run,          \* run_pipeline inside the Celery task: position and effects
    legacyContext, \* the last call of the legacy NLPAnalyzer.build_context
    legacyMain    \* the legacy main(): processed file and the last run

vars == <<indexFile, ledgerFile, call, hist, extraction, celery,
          tts, rss, run, legacyContext, legacyMain>>

\* the variables of the context store, of extract_lessons and of the worker
storeVars == <<indexFile, ledgerFile, call, hist, extraction, celery>>

(***************************************************************************)
(* Bounds of the model.                                                    *)
(***************************************************************************)
\* longest batch of new lessons passed to one call
MaxBatch == 2
\* most entries the index or the ledger may hold after a call
MaxStore == 3

\* default of the parameter top_k_similar
top_k_similar == 3

\* the lesson texts that occur in batches
Lessons == {"a", "b"}

\* the values of the argument current_lessons_text
Batches == UNION {[1..n -> Lessons] : n \in 0..MaxBatch}

\* the values of the argument top_k_similar: an explicit 1, or the default
TopKs == {1, top_k_similar}

\* the sentence models a caller may pass (two models of different dimension)
Models == {"MiniLM", "Other"}

\* sentence_model.get_sentence_embedding_dimension(); the two models differ in
\* dimension (as 384 and 512 do), scaled down to 2 and 3 coordinates
get_sentence_embedding_dimension(m) == IF m = "MiniLM" THEN 2 ELSE 3

\* the position of a text in embedding space, before scaling per coordinate
Code(t) == IF t = "a" THEN 0 ELSE 1

\* sentence_model.encode on one text: a vector of the model's dimension,
\* a deterministic and injective function of the text
Embed(m, t) == [j \in 1..get_sentence_embedding_dimension(m) |-> Code(t) * j]

\* sentence_model.encode(current_lessons_text): one vector per text, in order
encode(m, texts) == [i \in 1..Len(texts) |-> Embed(m, texts[i])]

(***************************************************************************)
(* JSON text of a list of strings, as a sequence of tokens.                *)
(***************************************************************************)
LBracket == [tok |-> "[", v |-> ""]
RBracket == [tok |-> "]", v |-> ""]
Comma == [tok |-> ",", v |-> ""]

\* the JSON string literal of a text: the text between double quotes (the
\* texts of the model need no escape)
py_encode_basestring_ascii(t) == "\"" \o t \o "\""

\* the token of a string literal
Str(lit) == [tok |-> "str", v |-> lit]

\* the items of a non-empty list, from item i on, with a comma between two
RECURSIVE Items(_, _)
Items(lst, i) ==
    IF i = Len(lst) THEN <<Str(py_encode_basestring_ascii(lst[i]))>>
    ELSE <<Str(py_encode_basestring_ascii(lst[i])), Comma>> \o Items(lst, i + 1)

\* the items written one after the other with no comma between them
json_dumps_NoSeparator(lst) ==
    <<LBracket>>
        \o [i \in 1..Len(lst) |-> Str(py_encode_basestring_ascii(lst[i]))]
        \o <<RBracket>>

\* json.dump(lst, f, indent=2), for a list of strings (white space left out)
json_dumps(lst) ==
    IF lst = <<>> THEN <<LBracket, RBracket>>
    ELSE <<LBracket>> \o Items(lst, 1) \o <<RBracket>>

\* json.load raising JSONDecodeError
JSONDecodeError == [ok |-> FALSE, value |-> <<>>]

\* the episode IDs (entry id or entry link) of the feeds of the model
EpisodeIds == {"ep1", "ep2", "ep3"}

\* the decoder's scanstring: the text of a string literal, if it is one
scanstring(lit) ==
    IF \E t \in Lessons \cup EpisodeIds : py_encode_basestring_ascii(t) = lit
    THEN [ok |-> TRUE,
          value |-> CHOOSE t \in Lessons \cup EpisodeIds :
                       py_encode_basestring_ascii(t) = lit]
    ELSE [ok |-> FALSE, value |-> ""]

\* the decoder inside a list, at an item: a string, then a comma and the next
\* item, or the closing bracket and the end of the text
RECURSIVE ParseItems(_, _, _)
ParseItems(toks, i, acc) ==
    IF i + 1 > Len(toks) \/ toks[i].tok # "str" THEN JSONDecodeError
    ELSE LET item == scanstring(toks[i].v)
         IN  IF ~item.ok THEN JSONDecodeError
             ELSE IF toks[i + 1] = Comma
                  THEN ParseItems(toks, i + 2, Append(acc, item.value))
             ELSE IF toks[i + 1] = RBracket /\ i + 1 = Len(toks)
                  THEN [ok |-> TRUE, value |-> Append(acc, item.value)]
             ELSE JSONDecodeError

\* json.load(f) of a text that is to hold a list of strings
json_loads(toks) ==
    IF Len(toks) < 2 \/ toks[1] # LBracket THEN JSONDecodeError
    ELSE IF toks[2] = RBracket
         THEN IF Len(toks) = 2 THEN [ok |-> TRUE, value |-> <<>>]
              ELSE JSONDecodeError
         ELSE ParseItems(toks, 2, <<>>)

(***************************************************************************)
(* Files.  A file is missing, unreadable (a truncated or partial write),   *)
(* or holds what was last written to it in full.  The ledger file holds    *)
(* JSON text; a partial write of it is cut after the opening bracket.      *)
(***************************************************************************)
MissingIndex == [kind |-> "missing", d |-> 0, vecs |-> <<>>]
CorruptIndex == [kind |-> "corrupt", d |-> 0, vecs |-> <<>>]
MissingLedger == [kind |-> "missing", data |-> <<>>]
CorruptLedger == [kind |-> "corrupt", data |-> <<LBracket>>]

\* os.path.exists
exists(file) == file.kind # "missing"

\* faiss.IndexFlatL2(embedding_dimension): an empty index
IndexFlatL2(d) == [d |-> d, vecs |-> <<>>]

\* index.ntotal
ntotal(index) == Len(index.vecs)

(***************************************************************************)
(* Step 1 of build_context: load the pair (lines 162-180).                 *)
(***************************************************************************)
\* what the load leaves in memory: index and past_lessons_data
NewPair(dim) == [index |-> IndexFlatL2(dim), past_lessons_data |-> <<>>]

\* a load that re-initializes the index of another dimension and keeps the ledger
Load_KeepsLedger(indexF, ledgerF, dim) ==
    IF exists(indexF) /\ exists(ledgerF)
    THEN IF indexF.kind = "corrupt" \/ ~json_loads(ledgerF.data).ok
         THEN [index |-> IndexFlatL2(dim), past_lessons_data |-> <<>>]
         ELSE [index |-> IF indexF.d # dim THEN IndexFlatL2(dim)
                         ELSE [d |-> indexF.d, vecs |-> indexF.vecs],
               past_lessons_data |-> json_loads(ledgerF.data).value]
    ELSE [index |-> IndexFlatL2(dim), past_lessons_data |-> <<>>]

\* a load that reads each file on its own, whether or not the other exists
Load_Independent(indexF, ledgerF, dim) ==
    [index |-> IF indexF.kind = "ok" /\ indexF.d = dim
               THEN [d |-> indexF.d, vecs |-> indexF.vecs] ELSE IndexFlatL2(dim),
     past_lessons_data |-> IF ledgerF.kind = "ok"
                           THEN json_loads(ledgerF.data).value ELSE <<>>]

\* a load that empties only the half whose read raised and keeps the other
Load_KeepsReadableHalf(indexF, ledgerF, dim) ==
    IF exists(indexF) /\ exists(ledgerF)
    THEN IF indexF.kind = "ok" /\ indexF.d # dim
         THEN NewPair(dim)
         ELSE [index |-> IF indexF.kind = "corrupt" THEN IndexFlatL2(dim)
                         ELSE [d |-> indexF.d, vecs |-> indexF.vecs],
               past_lessons_data |-> json_loads(ledgerF.data).value]
    ELSE NewPair(dim)

\* both files exist: read both; an exception in either read (faiss.read_index
\* on an unreadable file, json.load on text that does not parse), or an index
\* of another dimension, re-initializes both.  Otherwise (one or both files
\* missing) both start empty.  The sizes of the two are not compared.
Load(indexF, ledgerF, dim) ==
    IF exists(indexF) /\ exists(ledgerF)
    THEN IF indexF.kind = "corrupt" \/ ~json_loads(ledgerF.data).ok
         THEN NewPair(dim)
         ELSE IF indexF.d # dim
              THEN NewPair(dim)
              ELSE [index |-> [d |-> indexF.d, vecs |-> indexF.vecs],
                    past_lessons_data |-> json_loads(ledgerF.data).value]
    ELSE NewPair(dim)

(***************************************************************************)
(* Step 2: search and resolve (lines 185-213).                             *)
(***************************************************************************)
RECURSIVE SqDistFrom(_, _, _)
SqDistFrom(u, v, j) ==
    IF j > Len(u) THEN 0
    ELSE (u[j] - v[j]) * (u[j] - v[j]) + SqDistFrom(u, v, j + 1)

\* squared L2 distance of two vectors of the same dimension (IndexFlatL2)
L2(u, v) == SqDistFrom(u, v, 1)

Min(x, y) == IF x < y THEN x ELSE y

\* the rows index.search may return for one query: the positions (from 0) of
\* min(k, ntotal) stored vectors none of which is farther from the query than
\* a vector left out, and -1 when fewer than k vectors are stored.  Vectors at
\* equal distance may come back in any choice.
SearchRow(index, q, k) ==
    LET n == ntotal(index)
        P == 0..(n - 1)
        pad == IF n < k THEN {-1} ELSE {}
    IN  {S \cup pad : S \in {T \in SUBSET P :
            /\ Cardinality(T) = Min(k, n)
            /\ \A p \in T : \A r \in P \ T :
                   L2(index.vecs[p + 1], q) <= L2(index.vecs[r + 1], q)}}

\* index.search(queries, k): the matrices I it may return, one row per query
search(index, queries, k) ==
    IF Len(queries) = 0 THEN { <<>> }
    ELSE LET rows == UNION {SearchRow(index, queries[i], k) : i \in 1..Len(queries)}
         IN  {I \in [1..Len(queries) -> rows] :
                \A i \in 1..Len(queries) : I[i] \in SearchRow(index, queries[i], k)}

\* x in lst, for a Python list
InList(x, lst) == \E i \in 1..Len(lst) : lst[i] = x

\* the test of line 202 left out
NotCurrent_Always(text, current_lessons_text) == TRUE

\* the test of line 202: the found lesson is not one of the current lessons
NotCurrent(text, current_lessons_text) == ~InList(text, current_lessons_text)

\* a test that only looks at the upper end: the sentinel -1 passes
ValidPosition_UpperBoundOnly(idx, past_lessons_data) ==
    idx < Len(past_lessons_data)

\* the test of lines 198-200: idx is no sentinel and is a position of the ledger
ValidPosition(idx, past_lessons_data) ==
    idx # -1 /\ 0 <= idx /\ idx < Len(past_lessons_data)

\* lst[idx] of a Python list: positions count from 0, a negative idx counts
\* from the end, and any other idx raises IndexError (ok is FALSE)
getitem(lst, idx) ==
    IF 0 <= idx /\ idx < Len(lst) THEN [ok |-> TRUE, value |-> lst[idx + 1]]
    ELSE IF idx < 0 /\ 0 - idx <= Len(lst)
         THEN [ok |-> TRUE, value |-> lst[Len(lst) + idx + 1]]
         ELSE [ok |-> FALSE, value |-> ""]

\* a list append in place of set.add: a text found twice is kept twice
set_add_Append(s, x) == Append(s, x)

\* set.add(x).  A Python set is held as the sequence of its elements, each
\* once, in the order they were added.
set_add(s, x) == IF InList(x, s) THEN s ELSE Append(s, x)

\* set(): the empty related_context_lessons_set, and no exception so far
EmptySet == [set |-> <<>>, raised |-> FALSE]

\* the body of the inner loop, lines 198-205, for one idx of a row of I
Visit(idx, past_lessons_data, current_lessons_text, acc) ==
    IF ~ValidPosition(idx, past_lessons_data) THEN acc
    ELSE LET found == getitem(past_lessons_data, idx)
         IN  IF ~found.ok THEN [acc EXCEPT !.raised = TRUE]
             ELSE IF NotCurrent(found.value, current_lessons_text)
                  THEN [acc EXCEPT !.set = set_add(@, found.value)]
                  ELSE acc

\* the inner loop of line 197 over one row of I; an exception ends the loops
RECURSIVE VisitRow(_, _, _, _)
VisitRow(row, past_lessons_data, current_lessons_text, acc) ==
    IF row = {} \/ acc.raised THEN acc
    ELSE LET idx == CHOOSE x \in row : \A y \in row : x <= y
         IN  VisitRow(row \ {idx}, past_lessons_data, current_lessons_text,
                      Visit(idx, past_lessons_data, current_lessons_text, acc))

\* the outer loop of line 196 over the rows of I, from row i on
RECURSIVE VisitRows(_, _, _, _, _)
VisitRows(I, i, past_lessons_data, current_lessons_text, acc) ==
    IF i > Len(I) \/ acc.raised THEN acc
    ELSE VisitRows(I, i + 1, past_lessons_data, current_lessons_text,
                   VisitRow(I[i], past_lessons_data, current_lessons_text, acc))

\* the loops of lines 196-205: related_context_lessons_set when they end, and
\* whether they ended by an exception
related_context_lessons_set(I, past_lessons_data, current_lessons_text) ==
    VisitRows(I, 1, past_lessons_data, current_lessons_text, EmptySet)

\* the texts the loops of lines 196-205 resolve
Resolve(I, past_lessons_data, current_lessons_text) ==
    LET s == related_context_lessons_set(I, past_lessons_data,
                                         current_lessons_text).set
    IN  {s[i] : i \in 1..Len(s)}

\* list(related_context_lessons_set), line 238: the elements held, in any of
\* the orders the iteration of a set may give
list(s) ==
    {[i \in 1..Len(s) |-> s[f[i]]] :
        f \in {g \in [1..Len(s) -> 1..Len(s)] :
                 \A i, j \in 1..Len(s) : g[i] = g[j] => i = j}}

\* the neighbour positions a search returned, over all rows of I
Neighbors(I) == UNION {I[i] : i \in 1..Len(I)}

\* a search run whenever the batch is not empty, on an empty index too
SearchStep_NonEmptyBatch(current_lessons_text, index) ==
    current_lessons_text # <<>>

\* the guard of line 185
SearchStep(current_lessons_text, index) ==
    current_lessons_text # <<>> /\ ntotal(index) > 0

(***************************************************************************)
(* Step 3: update and persist (lines 216-236).                             *)
(***************************************************************************)
\* the update run whatever the batch
UpdateStep_Always(current_lessons_text) == TRUE

\* the guard of line 216
UpdateStep(current_lessons_text) == current_lessons_text # <<>>

\* index.add(vectors)
add(index, vectors) == [index EXCEPT !.vecs = @ \o vectors]

\* append in place of extend: one entry for the first lesson only
extend_First(past_lessons_data, current_lessons_text) ==
    IF current_lessons_text = <<>> THEN past_lessons_data
    ELSE Append(past_lessons_data, current_lessons_text[1])

\* the new lessons put in front of the old ones
extend_Front(past_lessons_data, current_lessons_text) ==
    current_lessons_text \o past_lessons_data

\* assignment in place of extend: the new lessons replace the old ones
extend_Replace(past_lessons_data, current_lessons_text) ==
    current_lessons_text

\* past_lessons_data.extend(current_lessons_text)
extend(past_lessons_data, current_lessons_text) ==
    past_lessons_data \o current_lessons_text

\* how a write may end: in full, or failed with the old file left as it was
\* (the file could not be opened), or failed with a partial file left
WriteOutcomes == {"ok", "unchanged", "partial"}

\* faiss.write_index(index, faiss_index_path)
write_index(old, index, how) ==
    CASE how = "ok" -> [kind |-> "ok", d |-> index.d, vecs |-> index.vecs]
      [] how = "unchanged" -> old
      [] OTHER -> CorruptIndex

\* open(past_lessons_json_path, 'w') and json.dump(past_lessons_data, f)
dump(old, past_lessons_data, how) ==
    CASE how = "ok" -> [kind |-> "ok", data |-> json_dumps(past_lessons_data)]
      [] how = "unchanged" -> old
      [] OTHER -> CorruptLedger

(***************************************************************************)
(* The record of a call.                                                   *)
(***************************************************************************)
\* the list of strings a ledger file holds (none when it does not parse)
Entries(ledgerF) == json_loads(ledgerF.data).value

\* what the two files were when the call began
Seen(indexF, ledgerF) ==
    [index |-> indexF.kind, d |-> indexF.d, ntotal |-> Len(indexF.vecs),
     ledger |-> ledgerF.kind, len |-> Len(Entries(ledgerF))]

\* how a step that may raise ended: not run, run without error, raised
StepResult(ran, raised) == IF ~ran THEN "none" ELSE IF raised THEN "failed" ELSE "ok"

NoCall ==
    [outcome |-> "idle", lessons |-> <<>>, model |-> "none",
     seen |-> Seen(MissingIndex, MissingLedger),
     loaded |-> [ntotal |-> 0, len |-> 0], searched |-> FALSE,
     encodeSearch |-> "none", encodeUpdate |-> "none",
     indexWrite |-> "none", ledgerWrite |-> "none", result |-> {},
     past |-> <<>>, neighbors |-> {}, resolveRaised |-> FALSE,
     returned |-> <<>>, final |-> [ntotal |-> 0, ledger |-> <<>>]]

\* the history after a call: whether every call since the empty store ran its
\* update step to the end, the one model all of them used, and the batches
\* they appended, in call order (kept only while both hold)
NextHist(h, m, lessons, success) ==
    LET clean == h.clean /\ success
        model == IF h.model \in {"none", m} THEN m ELSE "mixed"
    IN  IF ~clean THEN [clean |-> FALSE, model |-> "mixed", batches |-> <<>>]
        ELSE [clean |-> TRUE, model |-> model,
              batches |-> IF model = "mixed" THEN <<>> ELSE h.batches \o lessons]

(***************************************************************************)
(* extract_lessons (lines 53-114).                                         *)
(***************************************************************************)
\* most phrases of free text, rank and chunks in a document
MaxHead == 2
\* the number of further phrases of a long document
FillerLen == 14

\* line 83
top_n_lessons == 15
\* line 89
max_keywords == 30

\* the values of phrase.rank (scores, scaled to integers)
Ranks == {1, 2}

\* a token of a chunk that is neither a stopword nor punctuation
Word(l) == [lemma_ |-> l, is_stop |-> FALSE, is_punct |-> FALSE]
\* a stopword
Stop(l) == [lemma_ |-> l, is_stop |-> TRUE, is_punct |-> FALSE]
\* a punctuation token
Punct(l) == [lemma_ |-> l, is_stop |-> FALSE, is_punct |-> TRUE]

\* the values of phrase.chunks of the free phrases: no chunk; one chunk with a
\* capitalized word, a stopword and a comma; two chunks with three words and
\* a token of empty lemma
HeadChunks ==
    { <<>>,
      << <<Word("Run"), Stop("the"), Punct(",")>> >>,
      << <<Word("run"), Word("")>>, <<Word("h1"), Word("h2")>> >> }

\* the free phrases
HeadPhrases == [text : {"x", "y"}, rank : Ranks, chunks : HeadChunks]

\* the i-th further phrase: a text of its own, ranks 2 and 1 in turn, one
\* chunk of two words of its own
Filler(i) ==
    [text |-> "t" \o ToString(i),
     rank |-> IF i % 2 = 1 THEN 2 ELSE 1,
     chunks |-> << <<Word("k" \o ToString(2 * i - 1)),
                     Word("k" \o ToString(2 * i))>> >>]

\* the values of doc._.phrases, in the order the ranking provider gives them:
\* up to MaxHead free phrases, before or after none or FillerLen further ones
Docs ==
    LET heads == UNION {[1..n -> HeadPhrases] : n \in 0..MaxHead}
        tails == {[i \in 1..n |-> Filler(i)] : n \in {0, FillerLen}}
    IN  {h \o t : h \in heads, t \in tails} \cup {t \o h : h \in heads, t \in tails}

\* the values of the argument nlp_pipeline: None, or a loaded pipeline
Pipelines == {"None", "nlp"}

\* the values of the argument transcript_text
Transcripts == {"", "text"}

\* a guard that lets a missing pipeline through
NoPipeline_Never(nlp_pipeline) == FALSE

\* line 66: not nlp_pipeline
NoPipeline(nlp_pipeline) == nlp_pipeline = "None"

\* line 69: not transcript_text
NoTranscript(transcript_text) == transcript_text = ""

\* line 76: not doc._.phrases
NoPhrases(phrases) == phrases = <<>>

\* p put before the first phrase of s of rank lower than or equal to its own
RECURSIVE InsertBeforeEqual(_, _)
InsertBeforeEqual(s, p) ==
    IF s = <<>> THEN <<p>>
    ELSE IF Head(s).rank > p.rank THEN <<Head(s)>> \o InsertBeforeEqual(Tail(s), p)
         ELSE <<p>> \o s

\* p put before the first phrase of s of rank lower than its own: after the
\* phrases of equal rank that came before it
RECURSIVE InsertByRank(_, _)
InsertByRank(s, p) ==
    IF s = <<>> THEN <<p>>
    ELSE IF Head(s).rank >= p.rank THEN <<Head(s)>> \o InsertByRank(Tail(s), p)
         ELSE <<p>> \o s

RECURSIVE SortedTiesReversedFrom(_, _, _)
SortedTiesReversedFrom(phrases, i, acc) ==
    IF i > Len(phrases) THEN acc
    ELSE SortedTiesReversedFrom(phrases, i + 1, InsertBeforeEqual(acc, phrases[i]))

\* a sort by descending rank that reverses the phrases of equal rank (an
\* ascending sort, then reversed)
sorted_TiesReversed(phrases) == SortedTiesReversedFrom(phrases, 1, <<>>)

RECURSIVE SortedFrom(_, _, _)
SortedFrom(phrases, i, acc) ==
    IF i > Len(phrases) THEN acc
    ELSE SortedFrom(phrases, i + 1, InsertByRank(acc, phrases[i]))

\* line 82: sorted(doc._.phrases, key=lambda p: p.rank, reverse=True); the
\* sort is stable, phrases of equal rank keep their order
sorted(phrases) == SortedFrom(phrases, 1, <<>>)

\* s[:n] of a Python list
slice_to(s, n) == SubSeq(s, 1, Min(n, Len(s)))

\* line 84: the texts of the first top_n_lessons sorted phrases
extracted_lessons_text(phrases) ==
    LET top == slice_to(sorted(phrases), top_n_lessons)
    IN  [i \in 1..Len(top) |-> top[i].text]

\* line 98: the first phrase of the document with this text
original_phrase_obj(phrases, phrase_text) ==
    phrases[CHOOSE i \in 1..Len(phrases) :
                /\ phrases[i].text = phrase_text
                /\ \A j \in 1..(i - 1) : phrases[j].text # phrase_text]

\* str.lower() on the lemmas of the model
lower(l) == IF l = "Run" THEN "run" ELSE l

\* lines 103-105 over the tokens of one chunk, from token j on
RECURSIVE AddTokens(_, _, _)
AddTokens(chunk, j, keywords) ==
    IF j > Len(chunk) THEN keywords
    ELSE LET token == chunk[j]
         IN  AddTokens(chunk, j + 1,
                 IF ~token.is_stop /\ ~token.is_punct /\ token.lemma_ # ""
                 THEN set_add(keywords, lower(token.lemma_))
                 ELSE keywords)

\* line 102 over the chunks of one phrase, from chunk c on
RECURSIVE AddChunks(_, _, _)
AddChunks(chunks, c, keywords) ==
    IF c > Len(chunks) THEN keywords
    ELSE AddChunks(chunks, c + 1, AddTokens(chunks[c], 1, keywords))

\* the loop of lines 91-108 over the lesson texts, from text i on; it ends
\* early once max_keywords keywords are held
RECURSIVE KeywordsFrom(_, _, _, _)
KeywordsFrom(phrases, lessons, i, keywords) ==
    IF i > Len(lessons) THEN keywords
    ELSE LET kw == AddChunks(original_phrase_obj(phrases, lessons[i]).chunks,
                             1, keywords)
         IN  IF Len(kw) >= max_keywords THEN kw
             ELSE KeywordsFrom(phrases, lessons, i + 1, kw)

\* the sets of k elements of the set S
RECURSIVE Choose(_, _)
Choose(S, k) ==
    IF k = 0 THEN { {} }
    ELSE UNION { {D \cup {x} : D \in Choose(S \ {x}, k - 1)} : x \in S }

\* the list of the whole keyword set, with no slice
final_keywords_All(keywords) == {keywords}

\* line 111: list(keywords)[:max_keywords].  The iteration order of a set is
\* arbitrary, so any max_keywords of the keywords may be the ones kept; the
\* list is held with the kept keywords in the order they were added.
final_keywords(keywords) ==
    LET idx == 1..Len(keywords)
        excess == IF Len(keywords) > max_keywords
                  THEN Len(keywords) - max_keywords ELSE 0
        Keep(D) == LET F[i \in 0..Len(keywords)] ==
                           IF i = 0 THEN <<>>
                           ELSE IF i \in D THEN F[i - 1]
                                ELSE Append(F[i - 1], keywords[i])
                   IN  F[Len(keywords)]
    IN  {Keep(D) : D \in Choose(idx, excess)}

\* no extract_lessons call is in progress
NoExtraction ==
    [outcome |-> "idle", nlp_pipeline |-> "None", transcript_text |-> "",
     called |-> FALSE, pipelineRaised |-> FALSE, phrases |-> <<>>,
     lessons |-> <<>>, keywords |-> <<>>]

(***************************************************************************)
(* The Celery worker (celery_utils.py, tasks.py) and the GUI (gui.py).     *)
(***************************************************************************)
\* most pipeline runs submitted from the GUI
MaxPosts == 3

\* the processes of the worker's pool that execute tasks.  celery_utils.py
\* sets no worker_concurrency and no pool, so the worker started as line 34
\* says runs Celery's default: a prefork pool of one process per CPU core
\* (two here), each executing one task at a time.
WorkerProcesses == 1..2

\* a pool process that executes no task; index and past_lessons_data are the
\* locals of the build_context call it is in, if any
IdleProcess ==
    [pc |-> "idle", lessons |-> <<>>,
     index |-> IndexFlatL2(0), past_lessons_data |-> <<>>]

\* no task is queued and no process executes a task
IdleCelery ==
    [queue |-> 0, submitted |-> 0, pool |-> [w \in WorkerProcesses |-> IdleProcess]]

(***************************************************************************)
(* generate_tts of src/AllInApp/tts.py.                                    *)
(***************************************************************************)
Texts == {"Hello world", "Hola", ""}
OutputPaths == {"out.mp3", "episodes/ep1.mp3"}
\* the argument language: given or left out
LanguageArgs == {<<>>, <<"en">>, <<"es">>, <<"invalid_lang">>}

\* the exception classes that matter to the handler, each with its base class
BaseOf ==
    [BaseException |-> "BaseException",
     Exception |-> "BaseException",
     KeyboardInterrupt |-> "BaseException",
     OSError |-> "Exception",
     ValueError |-> "Exception",
     LookupError |-> "Exception",
     KeyError |-> "LookupError"]

RECURSIVE isinstance(_, _)
isinstance(e, class) ==
    IF e.class = class THEN TRUE
    ELSE IF e.class = "BaseException" THEN FALSE
    ELSE isinstance([e EXCEPT !.class = BaseOf[e.class]], class)

\* no exception: the call returned
NoException == [class |-> "none", args |-> <<>>]

\* str(e): nothing for an exception without arguments, the argument for one
\* argument, and for a KeyError the repr of the argument
str(e) ==
    IF e.args = <<>> THEN ""
    ELSE IF isinstance(e, "KeyError") THEN "'" \o e.args[1] \o "'"
    ELSE e.args[1]

\* what the constructor gTTS(...) may do: return, or raise
ConstructorOutcomes ==
    {NoException,
     [class |-> "Exception", args |-> <<"gTTS initialization failed">>],
     [class |-> "ValueError", args |-> <<"Language not supported">>],
     [class |-> "KeyError", args |-> <<"lang">>],
     [class |-> "KeyboardInterrupt", args |-> <<>>]}

\* what tts.save(...) may do: return, or raise
SaveOutcomes ==
    {NoException,
     [class |-> "OSError", args |-> <<"Permission denied">>],
     [class |-> "Exception", args |-> <<>>],
     [class |-> "KeyboardInterrupt", args |-> <<>>]}

\* a handler that catches only the errors of the file system
Caught_OSErrorOnly(e) == isinstance(e, "OSError")

\* line 17: except Exception as e
Caught(e) == isinstance(e, "Exception")

\* a language parameter whose value is always the default
language_or_default_Always(arg) == "en"

\* line 4: language: str = 'en'
language_or_default(arg) == IF arg = <<>> THEN "en" ELSE arg[1]

\* the calls made on the gTTS library, in order
gTTS(text, lang, slow) ==
    [fn |-> "gTTS", text |-> text, lang |-> lang, slow |-> slow, path |-> ""]

save(path) ==
    [fn |-> "save", text |-> "", lang |-> "", slow |-> FALSE, path |-> path]

NoSpeech ==
    [outcome |-> "idle", text |-> "", output_path |-> "", language |-> <<>>,
     constructor |-> NoException, save |-> NoException,
     calls |-> <<>>, stdout |-> <<>>, raised |-> NoException]

\* lines 4-18: the whole call.  constructor and saving are what the library
\* does in this call
generate_tts(text, output_path, language, constructor, saving) ==
    LET lang == language_or_default(language)
        begun == [NoSpeech EXCEPT !.text = text, !.output_path = output_path,
                                  !.language = language,
                                  !.constructor = constructor,
                                  !.calls = <<gTTS(text, lang, FALSE)>>]
        handled(r, e) ==
            IF Caught(e)
            THEN [r EXCEPT !.outcome = "returned",
                           !.stdout = <<"An error occurred: " \o str(e)>>]
            ELSE [r EXCEPT !.outcome = "raised", !.raised = e]
    IN  IF constructor # NoException
        THEN handled(begun, constructor)
        ELSE LET saved == [begun EXCEPT !.save = saving,
                                        !.calls = Append(@, save(output_path))]
             IN  IF saving # NoException
                 THEN handled(saved, saving)
                 ELSE [saved EXCEPT
                          !.outcome = "returned",
                          !.stdout = <<"Audio content written to file '"
                                         \o output_path \o "'">>]

(***************************************************************************)
(* fetch_latest_episode of src/AllInApp/rss_feed.py.                       *)
(***************************************************************************)
\* longest list of entries of a feed
MaxEntries == 2

\* An entry of a parsed feed.  A key that may be absent holds the empty
\* sequence when absent and a one-element sequence when present.
Enclosure(type, href) == [type |-> type, href |-> href]

FeedEntries ==
    {[id |-> <<"ep1">>, link |-> <<>>, title |-> <<"One">>,
      enclosures |-> <<Enclosure(<<"audio/mpeg">>, "http://cdn/ep1.mp3")>>],
     [id |-> <<>>, link |-> <<"ep2">>, title |-> <<"Two">>,
      enclosures |-> <<Enclosure(<<"image/jpeg">>, "http://cdn/ep2.jpg"),
                       Enclosure(<<"Audio/MP3">>, "http://cdn/ep2.mp3")>>],
     [id |-> <<"ep3">>, link |-> <<>>, title |-> <<"Three">>,
      enclosures |-> <<Enclosure(<<"image/jpeg">>, "http://cdn/ep3.jpg")>>],
     [id |-> <<>>, link |-> <<>>, title |-> <<"Four">>,
      enclosures |-> <<Enclosure(<<>>, "http://cdn/ep4.bin"),
                       Enclosure(<<"audio/mpeg">>, "http://cdn/ep4.mp3")>>],
     [id |-> <<"">>, link |-> <<"ep3">>, title |-> <<"Five">>,
      enclosures |-> <<Enclosure(<<"audio/mpeg">>, "http://cdn/ep5.mp3")>>]}

\* feedparser.parse(feed_url): an ill-formed feed, or a list of entries
Feeds ==
    {[bozo |-> TRUE, entries |-> <<>>]}
        \cup {[bozo |-> FALSE, entries |-> es] :
                 es \in UNION {[1..n -> FeedEntries] : n \in 0..MaxEntries}}

\* dict.get(key, default) on a key held as a sequence of at most one value
get(value, default) == IF value = <<>> THEN default ELSE value[1]

\* str.lower on the enclosure types of the model
type_lower(t) == IF t = "Audio/MP3" THEN "audio/mp3" ELSE t

\* 'audio' in text, on the lower-cased enclosure types of the model
contains_audio(t) == t \in {"audio/mpeg", "audio/mp3"}

\* lines 73-77: the href of the first enclosure whose type holds 'audio',
\* from enclosure i on; "" stands for None
RECURSIVE first_audio(_, _)
first_audio(enclosures, i) ==
    IF i > Len(enclosures) THEN ""
    ELSE IF contains_audio(type_lower(get(enclosures[i].type, "")))
         THEN enclosures[i].href
    ELSE first_audio(enclosures, i + 1)

\* set(json.load(f)): the elements of a list, each once
RECURSIVE set_of(_, _)
set_of(lst, i) ==
    IF i = 0 THEN <<>> ELSE set_add(set_of(lst, i - 1), lst[i])

\* the processed-IDs file and its directory, before the first run
NoProcessedFile == [dir |-> FALSE, file |-> MissingLedger]

\* what reading an existing processed-IDs file may do
ReadOutcomes == {"ok", "IOError"}
\* what os.makedirs may do
MakedirsOutcomes == {"ok", "OSError"}

\* the list of IDs a processed-IDs file holds (none when it does not parse)
ProcessedIds(fs) == {Entries(fs.file)[i] : i \in 1..Len(Entries(fs.file))}

\* lines 23-49: the set processed_episode_ids the call starts with
LoadProcessed(fs, read) ==
    IF exists(fs.file) /\ read = "ok" /\ json_loads(fs.file.data).ok
    THEN set_of(Entries(fs.file), Len(Entries(fs.file)))
    ELSE <<>>

\* the result (None, None), with the files as they are
NoEpisode(fs) ==
    [outcome |-> "returned", audio_url |-> "", title |-> "",
     episode_id |-> "", fs |-> fs]

\* lines 82-85: open(processed_json_path, 'w') and json.dump(list(ids), f);
\* the order of list(ids) is any
WriteProcessed(fs, ids, how) ==
    {[fs EXCEPT !.file = dump(fs.file, written, how)] : written \in list(ids)}

\* lines 65-102: the loop over the entries, from entry i on
RECURSIVE Select(_, _, _, _, _)
Select(fs, entries, i, processed_episode_ids, how) ==
    IF i > Len(entries) THEN {NoEpisode(fs)}
    ELSE LET entry == entries[i]
             episode_id == get(entry.id, get(entry.link, ""))
             audio_url == first_audio(entry.enclosures, 1)
         IN  IF episode_id = ""
             THEN Select(fs, entries, i + 1, processed_episode_ids, how)
             ELSE IF InList(episode_id, processed_episode_ids)
             THEN Select(fs, entries, i + 1, processed_episode_ids, how)
             ELSE IF audio_url = ""
             THEN Select(fs, entries, i + 1, processed_episode_ids, how)
             ELSE {[outcome |-> "returned", audio_url |-> audio_url,
                    title |-> get(entry.title, "Untitled Episode"),
                    episode_id |-> episode_id, fs |-> after] :
                      after \in WriteProcessed(
                                   fs, set_add(processed_episode_ids, episode_id),
                                   how)}

\* lines 9-102: the results one call may have
fetch_latest_episode(fs, feed, read, makedirs, how) ==
    LET processed_episode_ids == LoadProcessed(fs, read)
        made == [fs EXCEPT !.dir = TRUE]
    IN  IF ~exists(fs.file) /\ ~fs.dir /\ makedirs = "OSError"
        THEN {NoEpisode(fs)}
        ELSE IF feed.bozo \/ feed.entries = <<>> THEN {NoEpisode(made)}
        ELSE Select(made, feed.entries, 1, processed_episode_ids, how)

NoFetchCall ==
    [outcome |-> "idle", audio_url |-> "", title |-> "", episode_id |-> "",
     before |-> {}, feed |-> [bozo |-> FALSE, entries |-> <<>>]]

\* fs: the directory and the file; returned: the IDs returned by the calls
\* before the last one
NoFetch == [fs |-> NoProcessedFile, call |-> NoFetchCall, returned |-> {}]

(***************************************************************************)
(* run_pipeline of src/AllInApp/main.py inside execute_podcast_pipeline of *)
(* src/AllInApp/tasks.py.                                                  *)
(***************************************************************************)
\* most runs of the task on one processed-IDs file
MaxRuns == 3

\* total of the overall progress task
pipeline_total_steps == 5

\* the feed at config.RSS_FEED_URL: two episodes, each with an audio file
TheFeed ==
    [bozo |-> FALSE,
     entries |->
        <<[id |-> <<"ep1">>, link |-> <<>>, title |-> <<"One">>,
           enclosures |-> <<Enclosure(<<"audio/mpeg">>, "http://cdn/ep1.mp3")>>],
          [id |-> <<>>, link |-> <<"ep2">>, title |-> <<"Two">>,
           enclosures |-> <<Enclosure(<<"image/jpeg">>, "http://cdn/ep2.jpg"),
                            Enclosure(<<"Audio/MP3">>, "http://cdn/ep2.mp3")>>]>>]

\* what feedparser.parse may give in a run: the feed, or an ill-formed text
RunFeeds == {TheFeed, [bozo |-> TRUE, entries |-> <<>>]}

\* the module config the run imports: src/AllInApp/config.py has neither
\* WHISPER_EXECUTABLE_PATH nor the two FAISS paths, src/config.py has all
PackageConfig ==
    [WHISPER_EXECUTABLE_PATH |-> FALSE, WHISPER_MODEL_PATH |-> TRUE,
     FAISS_INDEX_PATH |-> FALSE, PAST_LESSONS_PATH |-> FALSE,
     SHOW_ART_JPG |-> TRUE]

TopLevelConfig ==
    [WHISPER_EXECUTABLE_PATH |-> TRUE, WHISPER_MODEL_PATH |-> TRUE,
     FAISS_INDEX_PATH |-> TRUE, PAST_LESSONS_PATH |-> TRUE,
     SHOW_ART_JPG |-> TRUE]

Configs == {PackageConfig, TopLevelConfig}

\* what a called function may do: return a value that is truthy, return None
\* (or another falsy value), or raise an instance of Exception
CallOutcomes == {"ok", "None", "raise"}

\* a test of the result that lets every result pass
falsy_Never(result) == FALSE

\* not result
falsy(result) == result = "None"

\* rich: Progress.add_task("Overall Pipeline Progress", total=5) and
\* start_task: nothing completed, not finished
OverallTask ==
    [completed |-> 0, finished |-> FALSE,
     description |-> "Overall Pipeline Progress"]

\* rich: Progress.update(task, completed=.., advance=.., description=..);
\* an argument left out is the empty sequence.  A task is finished from the
\* first update on that leaves completed >= total.
progress_update(task, completed, advance, description) ==
    LET advanced == IF advance = <<>> THEN task.completed
                    ELSE task.completed + advance[1]
        now == IF completed = <<>> THEN advanced ELSE completed[1]
    IN  [completed |-> now,
         finished |-> task.finished \/ now >= pipeline_total_steps,
         description |-> IF description = <<>> THEN task.description
                         ELSE description[1]]

\* the state of the task and of run_pipeline before a run.  Kept from run to
\* run: context, the episodes whose lessons build_context was given, and
\* haltedEpisodes, the episodes of the earlier runs that halted in steps 2-4
NoRun ==
    [pc |-> "idle", runs |-> 0,
     status |-> "PENDING", status_message |-> "",
     config |-> PackageConfig,
     started |-> <<>>, results |-> <<>>, successes |-> {},
     halted |-> 0, raised |-> FALSE,
     episode_id |-> "", episode_title |-> "Unknown Episode",
     overall |-> OverallTask, advances |-> 0, red |-> FALSE,
     transcript |-> "none", nlp |-> FALSE, sentence_model |-> FALSE,
     build_context_called |-> FALSE,
     context |-> {}, haltedEpisodes |-> {}]

\* a step begins: progress.start_task of its task
Begin(r, step) == [r EXCEPT !.started = Append(@, step)]

\* return from inside a step: the overall task is set to completed=5 with a
\* description that names the halt, and the finally clause advances nothing
Return(r, result, description) ==
    [r EXCEPT !.pc = "returned",
              !.results = Append(@, result),
              !.halted = Len(r.started),
              !.red = @ \/ result # "none",
              !.overall = progress_update(@, <<pipeline_total_steps>>, <<>>,
                                          <<description>>)]

\* the end of a step that set step_k_success: the finally clause advances
\* the overall task by one
Succeed(r, result, next) ==
    [r EXCEPT !.pc = next,
              !.results = Append(@, result),
              !.successes = @ \cup {Len(r.started)},
              !.advances = @ + 1,
              !.overall = progress_update(@, <<>>, <<1>>, <<>>)]

\* lines 44-73, after fetch_latest_episode gave f (or raised)
step1(r, f, raises) ==
    LET b == Begin(r, 1)
    IN  IF raises
        THEN Return(b, "raise", "Overall Progress (Pipeline Halted at RSS)")
        ELSE IF f.audio_url = "" \/ f.title = ""
        THEN Return([b EXCEPT !.episode_title =
                                 IF f.title = "" THEN @ ELSE f.title],
                    "none",
                    "Overall Progress (Pipeline Halted: No new episodes)")
        ELSE Succeed([b EXCEPT !.episode_title = f.title,
                               !.episode_id = f.episode_id],
                     "ok", "step2")

\* lines 75-100, process_audio doing `outcome`
step2(r, outcome) ==
    LET b == Begin(r, 2)
    IN  IF outcome = "raise" \/ falsy(outcome)
        THEN Return(b, outcome,
                    "Overall Progress (Pipeline Halted at Audio Processing)")
        ELSE Succeed(b, outcome, "step3")

\* lines 102-137, transcribe_audio doing `outcome`
step3(r, outcome) ==
    IF ~r.config.WHISPER_EXECUTABLE_PATH \/ ~r.config.WHISPER_MODEL_PATH
    THEN Return(Begin(r, 3), "misconfigured",
                "Overall Progress (Pipeline Halted: Transcription Misconfigured)")
    ELSE LET b == Begin(r, 3)
         IN  IF outcome = "raise" \/ falsy(outcome)
             THEN Return(b, outcome,
                         "Overall Progress (Pipeline Halted at Transcription)")
             ELSE Succeed(b, outcome, "step4")

\* what step 4 meets: the read of the transcript, the two loads, the calls
Step4Outcomes ==
    [read : {"raise", "empty", "text"}, load_nlp_pipeline : {"ok", "None"},
     extract_lessons : {"ok", "raise"}, load_sentence_model : {"ok", "None"},
     build_context : {"ok", "raise"}]

\* lines 139-210
step4(r, o) ==
    LET b == Begin(r, 4)
        read == [b EXCEPT !.transcript = o.read]
        piped == [read EXCEPT !.nlp = (o.load_nlp_pipeline = "ok")]
        modelled == [piped EXCEPT
                        !.sentence_model = (o.load_sentence_model = "ok")]
        called == [modelled EXCEPT !.build_context_called = TRUE]
    IN  IF o.read = "raise"
        THEN Return(b, "raise",
                    "Overall Progress (Halted at NLP Transcript Read)")
        ELSE IF o.read = "empty" THEN Succeed(read, "empty", "step5")
        ELSE IF falsy(o.load_nlp_pipeline)
        THEN Return(read, "None", "Overall Progress (Halted at NLP Load)")
        ELSE IF o.extract_lessons = "raise"
        THEN Return(piped, "raise", "Overall Progress (Halted at NLP)")
        ELSE IF falsy(o.load_sentence_model)
        THEN Return(piped, "None",
                    "Overall Progress (Halted at Sentence Model)")
        ELSE IF ~r.config.FAISS_INDEX_PATH \/ ~r.config.PAST_LESSONS_PATH
        THEN Succeed(modelled, "ok", "step5")
        ELSE IF o.build_context = "raise"
        THEN Return(called, "raise", "Overall Progress (Halted at NLP)")
        ELSE Succeed([called EXCEPT !.context = @ \cup {r.episode_id}],
                     "ok", "step5")

\* what step 5 meets
Step5Outcomes ==
    [load_diffusion_model : CallOutcomes, generate_show_art : CallOutcomes]

\* lines 212-254: no path of step 5 returns from run_pipeline
step5(r, o) ==
    LET b == Begin(r, 5)
    IN  IF ~r.config.SHOW_ART_JPG THEN Succeed(b, "skipped", "final")
        ELSE IF o.load_diffusion_model = "raise"
        THEN [b EXCEPT !.pc = "final", !.results = Append(@, "raise"),
                       !.red = TRUE]
        ELSE IF falsy(o.load_diffusion_model)
        THEN Succeed(b, "skipped", "final")
        ELSE IF o.generate_show_art = "raise"
        THEN [b EXCEPT !.pc = "final", !.results = Append(@, "raise"),
                       !.red = TRUE]
        ELSE IF falsy(o.generate_show_art)
        THEN Succeed([b EXCEPT !.red = TRUE], "None", "final")
        ELSE Succeed(b, "ok", "final")

\* lines 256-273: the description of the overall task at the end
final(r) ==
    [r EXCEPT
        !.pc = "returned",
        !.overall =
            IF r.overall.finished THEN @
            ELSE IF r.overall.completed = pipeline_total_steps
            THEN IF ~r.red
                 THEN progress_update(@, <<>>, <<>>,
                         <<"Overall Pipeline Completed Successfully!">>)
                 ELSE progress_update(@, <<>>, <<>>,
                         <<"Overall Pipeline Completed with some issues/failures.">>)
            ELSE progress_update(@, <<>>, <<>>,
                    <<"Overall Pipeline Halted Early">>)]

(***************************************************************************)
(* The legacy NLPAnalyzer.build_context of src/nlp_analysis.py.            *)
(***************************************************************************)
\* most past lessons the two legacy files may hold after a call
MaxPast == 4

\* the k of index.search(embeddings, k=3)
legacy_k == 3

\* The text of past_lessons.txt, as its lesson texts and its line ends
NL == "\n"

\* "\n".join(lessons)
RECURSIVE join(_, _)
join(lessons, i) ==
    IF i > Len(lessons) THEN <<>>
    ELSE IF i = Len(lessons) THEN <<lessons[i]>>
    ELSE <<lessons[i], NL>> \o join(lessons, i + 1)

\* f.read().splitlines(): the lines of a text, from token i on; line is the
\* text of the line being read ("" when nothing of it was read yet) and
\* open says whether anything, even an empty text, belongs to it
RECURSIVE splitlines(_, _, _, _)
splitlines(text, i, line, open) ==
    IF i > Len(text) THEN IF open THEN <<line>> ELSE <<>>
    ELSE IF text[i] = NL THEN <<line>> \o splitlines(text, i + 1, "", FALSE)
    ELSE splitlines(text, i + 1, line \o text[i], TRUE)

\* the two files of the data directory before the first call
NoLegacyFiles ==
    [past_embeddings_file |-> [kind |-> "missing", vecs |-> <<>>],
     past_lessons_file |-> [kind |-> "missing", text |-> <<>>]]

\* the rows index.search may give for one query: the positions of the
\* nearest stored vectors, nearest first, then -1 up to k positions
LegacySearchRow(index, q, k) ==
    LET n == ntotal(index)
        padding == [i \in 1..(k - Min(k, n)) |-> -1]
    IN  {row \o padding :
            row \in {r \in [1..Min(k, n) -> 0..(n - 1)] :
                        /\ \A i, j \in 1..Min(k, n) : r[i] = r[j] => i = j
                        /\ \A i, j \in 1..Min(k, n) :
                              i < j => L2(index.vecs[r[i] + 1], q)
                                          <= L2(index.vecs[r[j] + 1], q)
                        /\ \A i \in 1..Min(k, n) :
                              \A p \in 0..(n - 1) :
                                 (\A j \in 1..Min(k, n) : r[j] # p)
                                    => L2(index.vecs[r[i] + 1], q)
                                          <= L2(index.vecs[p + 1], q)}}

\* line 32: if i < len(past_lessons)
in_range(i, past_lessons) == i < Len(past_lessons)

\* line 32: [past_lessons[i] for i in I[0] if i < len(past_lessons)], from
\* position j of the row on; acc holds the positions taken and the lessons
RECURSIVE Comprehension(_, _, _, _)
Comprehension(row, j, past_lessons, acc) ==
    IF j > Len(row) THEN acc
    ELSE IF ~in_range(row[j], past_lessons)
    THEN Comprehension(row, j + 1, past_lessons, acc)
    ELSE LET item == getitem(past_lessons, row[j])
         IN  IF ~item.ok THEN [acc EXCEPT !.raised = TRUE]
             ELSE Comprehension(row, j + 1, past_lessons,
                     [acc EXCEPT !.positions = Append(@, row[j]),
                                 !.related_lessons = Append(@, item.value)])

NoLegacyCall ==
    [outcome |-> "idle", lessons |-> <<>>, stored |-> 0,
     past_lessons |-> <<>>, row |-> <<>>, positions |-> <<>>,
     related_lessons |-> <<>>]

\* lines 23-41: the results one call may have, each with the files after it
legacy_build_context(files, lessons) ==
    LET embeddings == encode("MiniLM", lessons)
        past_embeddings == files.past_embeddings_file.vecs
        begun == [NoLegacyCall EXCEPT !.lessons = lessons,
                                      !.stored = Len(past_embeddings)]
        written ==
            [past_embeddings_file |->
                [kind |-> "ok", vecs |-> past_embeddings \o embeddings],
             past_lessons_file |->
                [kind |-> "ok",
                 text |-> files.past_lessons_file.text
                             \o join(lessons, 1) \o <<NL>>]]
        raised(r) == [call |-> [r EXCEPT !.outcome = "raised"], files |-> files]
    IN  IF ~exists(files.past_embeddings_file)
        THEN {[call |-> [begun EXCEPT !.outcome = "returned"],
               files |-> written]}
        ELSE IF past_embeddings = <<>> \/ embeddings = <<>>
        THEN {raised(begun)}
        ELSE LET index == add(IndexFlatL2(Len(past_embeddings[1])),
                              past_embeddings)
                 past_lessons ==
                     splitlines(files.past_lessons_file.text, 1, "", FALSE)
             IN  {LET got == Comprehension(
                                row, 1, past_lessons,
                                [raised |-> FALSE, positions |-> <<>>,
                                 related_lessons |-> <<>>])
                      r == [begun EXCEPT
                               !.past_lessons = past_lessons, !.row = row,
                               !.positions = got.positions,
                               !.related_lessons = got.related_lessons]
                  IN  IF got.raised THEN raised(r)
                      ELSE [call |-> [r EXCEPT !.outcome = "returned"],
                            files |-> written] :
                    row \in LegacySearchRow(index, embeddings[1], legacy_k)}

\* files: the two files; call: the last call
NoLegacyContext == [files |-> NoLegacyFiles, call |-> NoLegacyCall]

(***************************************************************************)
(* The legacy main() of src/main.py with fetch_latest_episode and          *)
(* mark_as_processed of src/rss_feed.py.                                   *)
(***************************************************************************)
\* the steps of main() between the fetch and mark_as_processed, in order
LegacySteps ==
    <<"download_audio", "transcribe_audio", "extract_lessons_and_keywords",
      "build_context", "generate_script_and_title", "script_to_audio",
      "generate_show_art", "summarize_script", "get_next_episode_number",
      "save_episode_files", "update_episodes_json", "generate_rss_feed">>

\* rss_feed.py lines 6-19: the guid of the latest episode, "" for None, or
\* the exception of json.load on a file that does not parse
legacy_fetch_latest_episode(entries, processed_file) ==
    IF entries = <<>> THEN [raised |-> FALSE, guid |-> ""]
    ELSE LET guid == entries[1]
         IN  IF exists(processed_file)
             THEN LET processed == json_loads(processed_file.data)
                  IN  IF ~processed.ok THEN [raised |-> TRUE, guid |-> ""]
                      ELSE IF InList(guid, processed.value)
                      THEN [raised |-> FALSE, guid |-> ""]
                      ELSE [raised |-> FALSE, guid |-> guid]
             ELSE [raised |-> FALSE, guid |-> guid]

\* a list that is written back as it was read
append_Nothing(processed, guid) == processed

\* rss_feed.py line 27: processed.append(guid)
append(processed, guid) == Append(processed, guid)

\* rss_feed.py lines 21-29: the file after the call, and whether it raised
mark_as_processed(processed_file, guid, how) ==
    LET read == IF exists(processed_file) THEN json_loads(processed_file.data)
                ELSE [ok |-> TRUE, value |-> <<>>]
    IN  IF ~read.ok THEN [raised |-> TRUE, file |-> processed_file]
        ELSE [raised |-> how # "ok",
              file |-> dump(processed_file, append(read.value, guid), how)]

NoLegacyMainCall ==
    [outcome |-> "idle", latest_episode |-> "", steps |-> 0, failed |-> "",
     marked |-> FALSE, first |-> "", stdout |-> ""]

\* the run before the first one: none
NoPreviousRun == [latest_episode |-> "", result |-> "none"]

\* feed: the guids of the entries of the feed, latest first
NoLegacyRun ==
    [feed |-> <<>>, processed_file |-> MissingLedger,
     call |-> NoLegacyMainCall, previous |-> NoPreviousRun]

\* main.py lines 12-55: one run; failAt is the step that raises (0: none)
\* and how is what the write of mark_as_processed does
legacy_main(m, failAt, how) ==
    LET fetched == legacy_fetch_latest_episode(m.feed, m.processed_file)
        begun == [NoLegacyMainCall EXCEPT
                     !.first = IF m.feed = <<>> THEN "" ELSE m.feed[1]]
    IN  IF fetched.raised
        THEN [m EXCEPT !.call = [begun EXCEPT !.outcome = "raised"]]
        ELSE IF fetched.guid = ""
        THEN [m EXCEPT !.call = [begun EXCEPT !.outcome = "returned"]]
        ELSE LET tried == [begun EXCEPT !.outcome = "returned",
                                        !.latest_episode = fetched.guid]
             IN  IF failAt # 0
                 THEN [m EXCEPT !.call =
                          [tried EXCEPT !.steps = failAt - 1,
                                        !.failed = LegacySteps[failAt],
                                        !.stdout = "An error occurred"]]
                 ELSE LET mark == mark_as_processed(m.processed_file,
                                                    fetched.guid, how)
                      IN  [m EXCEPT
                              !.processed_file = mark.file,
                              !.call =
                                 [tried EXCEPT
                                     !.steps = Len(LegacySteps),
                                     !.marked = TRUE,
                                     !.failed = IF mark.raised
                                                THEN "mark_as_processed"
                                                ELSE "",
                                     !.stdout = IF mark.raised
                                                THEN "An error occurred"
                                                ELSE "generated successfully"]]

(***************************************************************************)
(* build_context.                                                          *)
(***************************************************************************)
Init ==
    /\ indexFile = MissingIndex
    /\ ledgerFile = MissingLedger
    /\ call = NoCall
    /\ hist = [clean |-> TRUE, model |-> "none", batches |-> <<>>]
    /\ extraction = NoExtraction
    /\ celery = IdleCelery
    /\ tts = NoSpeech
    /\ rss = NoFetch
    /\ run = NoRun
    /\ legacyContext = NoLegacyContext
    /\ legacyMain = NoLegacyRun

\* lines 154-156: no sentence model, nothing is read or written
BuildContextNoModel(lessons) ==
    /\ call.outcome = "idle"
    /\ call' = [NoCall EXCEPT !.outcome = "returned", !.lessons = lessons,
                              !.seen = Seen(indexFile, ledgerFile)]
    /\ UNCHANGED <<indexFile, ledgerFile, hist, extraction, celery,
                   tts, rss, run, legacyContext, legacyMain>>

\* an update step that writes the index file before it encodes: encode may
\* raise after the index file was written in full
UpdatePaths_EncodeAfterWrite ==
    {u \in [encU : BOOLEAN, iw : WriteOutcomes \cup {"none"},
            crash : BOOLEAN, lw : WriteOutcomes \cup {"none"}] :
        /\ u.encU => (u.iw \in {"none", "ok"} /\ ~u.crash /\ u.lw = "none")
        /\ ~u.encU => u.iw # "none"
        /\ u.crash => u.iw = "ok"
        /\ (u.lw # "none") <=> (u.iw = "ok" /\ ~u.crash /\ ~u.encU)}

\* the ways the update step of lines 216-236 may go: encode raises (encU);
\* else the index write ends as iw; if it ended in full, the process may die
\* before the ledger write (crash), or the ledger write ends as lw.  A step
\* that is not reached has "none".
UpdatePaths ==
    {u \in [encU : BOOLEAN, iw : WriteOutcomes \cup {"none"},
            crash : BOOLEAN, lw : WriteOutcomes \cup {"none"}] :
        /\ u.encU => (u.iw = "none" /\ ~u.crash /\ u.lw = "none")
        /\ ~u.encU => u.iw # "none"
        /\ u.crash => u.iw = "ok"
        /\ (u.lw # "none") <=> (u.iw = "ok" /\ ~u.crash)}

\* the update step is skipped (line 216 is false)
NoUpdate == [encU |-> FALSE, iw |-> "none", crash |-> FALSE, lw |-> "none"]

\* lines 158-238, one whole call.  The inputs besides the arguments lessons,
\* m (the sentence model) and k (top_k_similar): whether encode raises in the
\* search step (encS), the matrix I the search returns, the way u the update
\* step goes, and the list ret that list() makes of the result set.
BuildContext(lessons, m, k, encS, I, u, ret) ==
    LET dim == get_sentence_embedding_dimension(m)
        pair == Load(indexFile, ledgerFile, dim)
        index == pair.index
        past_lessons_data == pair.past_lessons_data
        index1 == add(index, encode(m, lessons))
        past1 == extend(past_lessons_data, lessons)
        related == related_context_lessons_set(I, past_lessons_data, lessons)
    IN  /\ call' = [outcome |-> IF u.crash THEN "crashed" ELSE "returned",
                    lessons |-> lessons, model |-> m,
                    seen |-> Seen(indexFile, ledgerFile),
                    loaded |-> [ntotal |-> ntotal(index),
                                len |-> Len(past_lessons_data)],
                    searched |-> SearchStep(lessons, index) /\ ~encS,
                    encodeSearch |-> StepResult(SearchStep(lessons, index), encS),
                    encodeUpdate |-> StepResult(UpdateStep(lessons), u.encU),
                    indexWrite |-> StepResult(u.iw # "none", u.iw # "ok"),
                    ledgerWrite |-> StepResult(u.lw # "none", u.lw # "ok"),
                    result |-> IF u.crash THEN {}
                               ELSE Resolve(I, past_lessons_data, lessons),
                    past |-> past_lessons_data,
                    neighbors |-> Neighbors(I),
                    resolveRaised |-> related.raised,
                    returned |-> IF u.crash THEN <<>> ELSE ret,
                    final |-> IF u.encU \/ ~UpdateStep(lessons)
                              THEN [ntotal |-> ntotal(index),
                                    ledger |-> past_lessons_data]
                              ELSE [ntotal |-> ntotal(index1),
                                    ledger |-> past1]]
        /\ indexFile' = IF u.iw # "none" THEN write_index(indexFile, index1, u.iw)
                        ELSE indexFile
        /\ ledgerFile' = IF u.lw # "none" THEN dump(ledgerFile, past1, u.lw)
                         ELSE ledgerFile
        /\ hist' = NextHist(hist, m, lessons,
                            ~UpdateStep(lessons) \/ u.lw = "ok")
        /\ UNCHANGED <<extraction, celery,
                       tts, rss, run, legacyContext, legacyMain>>

\* the calls the model makes: every batch and model, within the bounds; the
\* inputs of a step are drawn only when the step is run
Calls ==
    /\ call.outcome = "idle"
    /\ \E lessons \in Batches, m \in Models :
        LET pair == Load(indexFile, ledgerFile, get_sentence_embedding_dimension(m))
            doSearch == SearchStep(lessons, pair.index)
        IN  /\ ntotal(pair.index) + Len(lessons) <= MaxStore
            /\ Len(pair.past_lessons_data) + Len(lessons) <= MaxStore
            /\ \E encS \in (IF doSearch THEN BOOLEAN ELSE {FALSE}) :
               \E k \in (IF doSearch /\ ~encS THEN TopKs ELSE {top_k_similar}) :
               \E I \in (IF doSearch /\ ~encS
                         THEN search(pair.index, encode(m, lessons), k)
                         ELSE { <<>> }) :
               \E u \in (IF UpdateStep(lessons) THEN UpdatePaths ELSE {NoUpdate}) :
               \E ret \in list(related_context_lessons_set(
                               I, pair.past_lessons_data, lessons).set) :
                   BuildContext(lessons, m, k, encS, I, u, ret)

\* the caller is done with what the call returned (or the process that died
\* is gone): no call is in progress, the files stay
EndOfRun ==
    /\ call.outcome # "idle"
    /\ call' = NoCall
    /\ UNCHANGED <<indexFile, ledgerFile, hist, extraction, celery,
                   tts, rss, run, legacyContext, legacyMain>>

Next ==
    \/ \E lessons \in Batches : BuildContextNoModel(lessons)
    \/ Calls
    \/ EndOfRun

Spec == Init /\ [][Next]_vars

(***************************************************************************)
(* Calls of extract_lessons.                                               *)
(***************************************************************************)
\* lines 66-111 up to the keyword set.  Inputs besides the two arguments:
\* whether the call nlp_pipeline(transcript_text) of line 74 raises, and the
\* phrases doc of the document it returns.  Calling None raises TypeError.
extract_lessons(transcript_text, nlp_pipeline, raises, doc) ==
    LET early == [outcome |-> "returned", nlp_pipeline |-> nlp_pipeline,
                  transcript_text |-> transcript_text, called |-> FALSE,
                  pipelineRaised |-> FALSE, phrases |-> <<>>,
                  lessons |-> <<>>, keywords |-> <<>>]
    IN  IF NoPipeline(nlp_pipeline) THEN early
        ELSE IF NoTranscript(transcript_text) THEN early
        ELSE IF nlp_pipeline = "None" \/ raises
             THEN [early EXCEPT !.outcome = "raised", !.called = TRUE,
                                !.pipelineRaised = TRUE]
        ELSE IF NoPhrases(doc) THEN [early EXCEPT !.called = TRUE]
        ELSE LET lessons == extracted_lessons_text(doc)
             IN  [early EXCEPT !.called = TRUE, !.phrases = doc,
                               !.lessons = lessons,
                               !.keywords = KeywordsFrom(doc, lessons, 1, <<>>)]

\* one whole call of extract_lessons, with the list line 111 makes of the
\* keyword set
ExtractLessons(transcript_text, nlp_pipeline, raises, doc) ==
    LET r == extract_lessons(transcript_text, nlp_pipeline, raises, doc)
    IN  /\ \E kept \in final_keywords(r.keywords) :
              extraction' = [r EXCEPT !.keywords = kept]
        /\ UNCHANGED <<indexFile, ledgerFile, call, hist, celery,
                       tts, rss, run, legacyContext, legacyMain>>

\* the calls the model makes: every pipeline and transcript; the inputs of
\* line 74 are drawn only when a loaded pipeline is given a transcript
Extractions ==
    /\ extraction.outcome = "idle"
    /\ \E transcript_text \in Transcripts, nlp_pipeline \in Pipelines :
        LET runs == nlp_pipeline # "None" /\ transcript_text # ""
        IN  \E raises \in (IF runs THEN BOOLEAN ELSE {FALSE}) :
            \E doc \in (IF runs /\ ~raises THEN Docs ELSE { <<>> }) :
                ExtractLessons(transcript_text, nlp_pipeline, raises, doc)

\* the caller is done with what the call returned or raised
EndOfExtraction ==
    /\ extraction.outcome # "idle"
    /\ extraction' = NoExtraction
    /\ UNCHANGED <<indexFile, ledgerFile, call, hist, celery,
                   tts, rss, run, legacyContext, legacyMain>>

NextExtract ==
    \/ Extractions
    \/ EndOfExtraction

SpecExtract == Init /\ [][NextExtract]_vars

(***************************************************************************)
(* Pipeline runs submitted from the GUI and executed by the Celery worker. *)
(***************************************************************************)
\* gui.py lines 52-69: a POST of the form with run_pipeline_button sends one
\* task message to the broker; nothing is asked about the tasks already sent
Post ==
    /\ celery.submitted < MaxPosts
    /\ celery' = [celery EXCEPT !.queue = @ + 1, !.submitted = @ + 1]
    /\ UNCHANGED <<indexFile, ledgerFile, call, hist, extraction,
                   tts, rss, run, legacyContext, legacyMain>>

\* tasks.py lines 25-42: a free pool process takes a task message and starts
\* execute_podcast_pipeline, which calls run_pipeline
TaskStart(w) ==
    /\ celery.pool[w].pc = "idle"
    /\ celery.queue > 0
    /\ celery' = [celery EXCEPT !.queue = @ - 1, !.pool[w].pc = "run_pipeline"]
    /\ UNCHANGED <<indexFile, ledgerFile, call, hist, extraction,
                   tts, rss, run, legacyContext, legacyMain>>

\* main.py lines 44-192: run_pipeline ends before line 194 (no new episode, a
\* failed step, an empty transcript, no paths in config) and the task returns
Halt(w) ==
    /\ celery.pool[w].pc = "run_pipeline"
    /\ celery' = [celery EXCEPT !.pool[w] = IdleProcess]
    /\ UNCHANGED <<indexFile, ledgerFile, call, hist, extraction,
                   tts, rss, run, legacyContext, legacyMain>>

\* main.py line 194 and nlp_analysis.py lines 158-180: run_pipeline calls
\* build_context with the lessons of the episode and the model of
\* load_sentence_model, and build_context loads the pair into its locals
EnterBuildContext(w, lessons) ==
    /\ celery.pool[w].pc = "run_pipeline"
    /\ LET pair == Load(indexFile, ledgerFile,
                        get_sentence_embedding_dimension("MiniLM"))
       IN  celery' = [celery EXCEPT !.pool[w] =
                         [pc |-> "build_context", lessons |-> lessons,
                          index |-> pair.index,
                          past_lessons_data |-> pair.past_lessons_data]]
    /\ UNCHANGED <<indexFile, ledgerFile, call, hist, extraction,
                   tts, rss, run, legacyContext, legacyMain>>

\* nlp_analysis.py lines 183-238 and tasks.py lines 44-48: build_context
\* searches, appends its lessons to its locals and writes both files from
\* them; run_pipeline and the task return
LeaveBuildContext(w) ==
    LET p == celery.pool[w]
    IN  /\ p.pc = "build_context"
        /\ indexFile' =
              IF UpdateStep(p.lessons)
              THEN write_index(indexFile,
                               add(p.index, encode("MiniLM", p.lessons)), "ok")
              ELSE indexFile
        /\ ledgerFile' =
              IF UpdateStep(p.lessons)
              THEN dump(ledgerFile, extend(p.past_lessons_data, p.lessons), "ok")
              ELSE ledgerFile
        /\ celery' = [celery EXCEPT !.pool[w] = IdleProcess]
        /\ UNCHANGED <<call, hist, extraction,
                       tts, rss, run, legacyContext, legacyMain>>

NextPipe ==
    \/ Post
    \/ \E w \in WorkerProcesses : TaskStart(w)
    \/ \E w \in WorkerProcesses : Halt(w)
    \/ \E w \in WorkerProcesses, lessons \in {b \in Batches : Len(b) <= 1} :
          EnterBuildContext(w, lessons)
    \/ \E w \in WorkerProcesses : LeaveBuildContext(w)

SpecPipe == Init /\ [][NextPipe]_vars

(***************************************************************************)
(* Calls of generate_tts.                                                  *)
(***************************************************************************)
\* one call of generate_tts, from its arguments to its return or its raise
GenerateTTS(text, output_path, language, constructor, saving) ==
    /\ tts.outcome = "idle"
    /\ tts' = generate_tts(text, output_path, language, constructor, saving)
    /\ UNCHANGED <<storeVars, rss, run, legacyContext, legacyMain>>

\* the caller goes on after the call
EndOfSpeech ==
    /\ tts.outcome # "idle"
    /\ tts' = NoSpeech
    /\ UNCHANGED <<storeVars, rss, run, legacyContext, legacyMain>>

NextTTS ==
    \/ \E text \in Texts, output_path \in OutputPaths,
          language \in LanguageArgs, constructor \in ConstructorOutcomes,
          saving \in SaveOutcomes :
          GenerateTTS(text, output_path, language, constructor, saving)
    \/ EndOfSpeech

SpecTTS == Init /\ [][NextTTS]_vars

(***************************************************************************)
(* Calls of fetch_latest_episode on one processed-IDs file.                *)
(***************************************************************************)
\* one call of fetch_latest_episode on the feed as it is at that time
Fetch(feed, read, makedirs, how) ==
    /\ rss.call.outcome = "idle"
    /\ \E r \in fetch_latest_episode(rss.fs, feed, read, makedirs, how) :
          rss' = [rss EXCEPT
                     !.fs = r.fs,
                     !.call = [outcome |-> r.outcome, audio_url |-> r.audio_url,
                               title |-> r.title, episode_id |-> r.episode_id,
                               before |-> ProcessedIds(rss.fs), feed |-> feed]]
    /\ UNCHANGED <<storeVars, tts, run, legacyContext, legacyMain>>

\* the caller goes on after the call; what the call returned is remembered
EndOfFetch ==
    /\ rss.call.outcome # "idle"
    /\ rss' = [rss EXCEPT
                  !.call = NoFetchCall,
                  !.returned = IF rss.call.episode_id = "" THEN @
                               ELSE @ \cup {rss.call.episode_id}]
    /\ UNCHANGED <<storeVars, tts, run, legacyContext, legacyMain>>

NextFeed ==
    \/ \E feed \in Feeds, read \in ReadOutcomes, makedirs \in MakedirsOutcomes,
          how \in WriteOutcomes : Fetch(feed, read, makedirs, how)
    \/ EndOfFetch

SpecFeed == Init /\ [][NextFeed]_vars

(***************************************************************************)
(* Runs of execute_podcast_pipeline, one after the other, on one feed and  *)
(* one processed-IDs file.                                                 *)
(***************************************************************************)
\* tasks.py lines 13-23 and 32-42: the task begins and calls run_pipeline,
\* which is the placeholder that raises ImportError when main was not
\* importable; main.py lines 26-42
TaskBegin(imported, config) ==
    /\ run.pc = "idle"
    /\ run.runs < MaxRuns
    /\ run' = [run EXCEPT !.pc = IF imported THEN "step1" ELSE "raised",
                          !.raised = ~imported,
                          !.runs = @ + 1,
                          !.status = "STARTED",
                          !.config = config]
    /\ UNCHANGED <<storeVars, tts, rss, legacyContext, legacyMain>>

\* main.py lines 44-73 with the call of fetch_latest_episode at line 51
Step1(feed, read, makedirs, how, raises) ==
    /\ run.pc = "step1"
    /\ \E f \in fetch_latest_episode(rss.fs, feed, read, makedirs, how) :
          /\ run' = step1(run, f, raises)
          /\ rss' = IF raises THEN rss ELSE [rss EXCEPT !.fs = f.fs]
    /\ UNCHANGED <<storeVars, tts, legacyContext, legacyMain>>

\* main.py lines 75-100
Step2(outcome) ==
    /\ run.pc = "step2"
    /\ run' = step2(run, outcome)
    /\ UNCHANGED <<storeVars, tts, rss, legacyContext, legacyMain>>

\* main.py lines 102-137
Step3(outcome) ==
    /\ run.pc = "step3"
    /\ run' = step3(run, outcome)
    /\ UNCHANGED <<storeVars, tts, rss, legacyContext, legacyMain>>

\* main.py lines 139-210
Step4(o) ==
    /\ run.pc = "step4"
    /\ run' = step4(run, o)
    /\ UNCHANGED <<storeVars, tts, rss, legacyContext, legacyMain>>

\* main.py lines 212-254
Step5(o) ==
    /\ run.pc = "step5"
    /\ run' = step5(run, o)
    /\ UNCHANGED <<storeVars, tts, rss, legacyContext, legacyMain>>

\* main.py lines 256-273
Final ==
    /\ run.pc = "final"
    /\ run' = final(run)
    /\ UNCHANGED <<storeVars, tts, rss, legacyContext, legacyMain>>

\* tasks.py lines 44-57: run_pipeline returned, or raised
TaskEnd ==
    /\ run.pc \in {"returned", "raised"}
    /\ run' = [run EXCEPT
                  !.pc = "done",
                  !.status = IF run.raised THEN "FAILURE" ELSE "SUCCESS",
                  !.status_message =
                      IF run.raised THEN "Pipeline failed."
                      ELSE "Pipeline completed successfully."]
    /\ UNCHANGED <<storeVars, tts, rss, legacyContext, legacyMain>>

\* the worker is free for the next task message
NextTask ==
    /\ run.pc = "done"
    /\ run' = [NoRun EXCEPT
                  !.runs = run.runs, !.context = run.context,
                  !.haltedEpisodes =
                      IF run.halted \in 2..4
                      THEN run.haltedEpisodes \cup {run.episode_id}
                      ELSE run.haltedEpisodes]
    /\ UNCHANGED <<storeVars, tts, rss, legacyContext, legacyMain>>

NextRun ==
    \/ \E imported \in BOOLEAN, config \in Configs : TaskBegin(imported, config)
    \/ \E feed \in RunFeeds, read \in ReadOutcomes,
          makedirs \in MakedirsOutcomes, how \in WriteOutcomes,
          raises \in BOOLEAN : Step1(feed, read, makedirs, how, raises)
    \/ \E outcome \in CallOutcomes : Step2(outcome)
    \/ \E outcome \in CallOutcomes : Step3(outcome)
    \/ \E o \in Step4Outcomes : Step4(o)
    \/ \E o \in Step5Outcomes : Step5(o)
    \/ Final
    \/ TaskEnd
    \/ NextTask

SpecRun == Init /\ [][NextRun]_vars

(***************************************************************************)
(* Calls of the legacy NLPAnalyzer.build_context.                          *)
(***************************************************************************)
\* one call of build_context(lessons) on the two files of the data directory
LegacyBuildContext(lessons) ==
    /\ legacyContext.call.outcome = "idle"
    /\ Len(legacyContext.files.past_embeddings_file.vecs) + Len(lessons)
          <= MaxPast
    /\ \E r \in legacy_build_context(legacyContext.files, lessons) :
          legacyContext' = r
    /\ UNCHANGED <<storeVars, tts, rss, run, legacyMain>>

\* the caller goes on after the call
EndOfLegacyCall ==
    /\ legacyContext.call.outcome # "idle"
    /\ legacyContext' = [legacyContext EXCEPT !.call = NoLegacyCall]
    /\ UNCHANGED <<storeVars, tts, rss, run, legacyMain>>

NextLegacyContext ==
    \/ \E lessons \in Batches : LegacyBuildContext(lessons)
    \/ EndOfLegacyCall

SpecLegacyContext == Init /\ [][NextLegacyContext]_vars

(***************************************************************************)
(* Runs of the legacy main().                                              *)
(***************************************************************************)
\* the podcast publishes an episode: a new first entry of the feed
Publish(guid) ==
    /\ legacyMain.call.outcome = "idle"
    /\ ~InList(guid, legacyMain.feed)
    /\ legacyMain' = [legacyMain EXCEPT !.feed = <<guid>> \o @]
    /\ UNCHANGED <<storeVars, tts, rss, run, legacyContext>>

\* one run of main()
LegacyMain(failAt, how) ==
    /\ legacyMain.call.outcome = "idle"
    /\ legacyMain' = legacy_main(legacyMain, failAt, how)
    /\ UNCHANGED <<storeVars, tts, rss, run, legacyContext>>

\* the run is over; what it fetched and how it ended is remembered
EndOfLegacyMain ==
    /\ legacyMain.call.outcome # "idle"
    /\ legacyMain' =
          [legacyMain EXCEPT
              !.call = NoLegacyMainCall,
              !.previous =
                  [latest_episode |-> legacyMain.call.latest_episode,
                   result |->
                      IF legacyMain.call.latest_episode = "" THEN "none"
                      ELSE IF legacyMain.call.failed = "" THEN "succeeded"
                      ELSE IF legacyMain.call.marked THEN "mark failed"
                      ELSE "failed"]]
    /\ UNCHANGED <<storeVars, tts, rss, run, legacyContext>>

NextLegacyMain ==
    \/ \E guid \in EpisodeIds : Publish(guid)
    \/ \E failAt \in 0..Len(LegacySteps), how \in WriteOutcomes :
          LegacyMain(failAt, how)
    \/ EndOfLegacyMain

SpecLegacyMain == Init /\ [][NextLegacyMain]_vars

(***************************************************************************)
(* Properties.                                                             *)
(***************************************************************************)
\* a call of build_context with a sentence model has been made
Called == call.outcome # "idle" /\ call.model \in Models

\* the dimension of the model the call was made with
CallDim == get_sentence_embedding_dimension(call.model)

\* the index file holds, in full, exactly the vectors of these texts
IndexHolds(m, texts) ==
    indexFile = [kind |-> "ok", d |-> get_sentence_embedding_dimension(m),
                 vecs |-> encode(m, texts)]

\* the ledger file holds, in full, exactly these texts
LedgerHolds(texts) ==
    ledgerFile.kind = "ok" /\ json_loads(ledgerFile.data) = [ok |-> TRUE, value |-> texts]

\* C1: while every call since the empty store has run its update step to the
\* end (encode, add, extend and both writes without error), the index file
\* holds as many vectors as the ledger file holds strings.
C1_Alignment ==
    hist.clean =>
        /\ indexFile.kind = ledgerFile.kind
        /\ indexFile.kind \in {"missing", "ok"}
        /\ Len(indexFile.vecs) = Len(Entries(ledgerFile))

\* C1: a second successful call has appended a batch of two to a non-empty pair
C1_Witness ==
    /\ hist.clean
    /\ Called /\ call.ledgerWrite = "ok"
    /\ call.seen.ntotal > 0
    /\ Len(call.lessons) = 2
    /\ Len(Entries(ledgerFile)) = 3

\* C2: a call that finds both files readable, with an index that holds another
\* number of vectors than the ledger holds strings, starts from an empty index
\* and an empty ledger.
C2_DesyncIsReset ==
    (/\ Called
     /\ call.seen.index = "ok" /\ call.seen.ledger = "ok"
     /\ call.seen.ntotal # call.seen.len)
        => call.loaded = [ntotal |-> 0, len |-> 0]

\* C3: whenever both files are readable, every ledger position has a vector at
\* the same position of the index, and that vector is the embedding of the
\* ledger's text.
C3_PositionalCorrespondence ==
    (indexFile.kind = "ok" /\ ledgerFile.kind = "ok") =>
        \A i \in 1..Len(Entries(ledgerFile)) :
            /\ i <= Len(indexFile.vecs)
            /\ \E m \in Models :
                  /\ get_sentence_embedding_dimension(m) = indexFile.d
                  /\ indexFile.vecs[i] = Embed(m, Entries(ledgerFile)[i])

C5_SelfExclusion ==
    \A t \in call.result : ~InList(t, call.lessons)

\* C5: the store held "a" and "b", the call was made with ["a"], the search ran
\* over both and the call returned "b" alone
C5_Witness ==
    /\ Called /\ call.searched
    /\ call.lessons = <<"a">>
    /\ call.ledgerWrite = "ok"
    /\ Entries(ledgerFile) = <<"a", "b", "a">>
    /\ call.result = {"b"}

\* C6: a call with an empty lesson list returns the empty list, writes neither
\* file, and leaves both files as they were.
C6_EmptyInputNoOp ==
    [][(call.outcome = "idle" /\ call'.outcome # "idle" /\ call'.lessons = <<>>)
        => /\ call'.outcome = "returned"
           /\ call'.result = {}
           /\ call'.indexWrite = "none" /\ call'.ledgerWrite = "none"
           /\ indexFile' = indexFile
           /\ ledgerFile' = ledgerFile]_vars

\* C6: a call with no lessons found an index of another dimension than the model's
C6_Witness ==
    /\ Called /\ call.outcome = "returned"
    /\ call.lessons = <<>>
    /\ call.seen.index = "ok" /\ call.seen.ledger = "ok"
    /\ call.seen.ntotal > 0
    /\ call.seen.d # CallDim

\* C7: a call that finds both files readable and an index of another dimension
\* than the model's starts from an empty index and an empty ledger, runs no
\* search, ends without an error, returns no context, and, when its batch is
\* not empty and its update step runs to the end, leaves the two files holding
\* exactly the batch.
C7_DimensionMismatchReset ==
    (/\ Called
     /\ call.seen.index = "ok" /\ call.seen.ledger = "ok"
     /\ call.seen.d # CallDim)
        => /\ call.loaded = [ntotal |-> 0, len |-> 0]
           /\ ~call.searched /\ call.encodeSearch = "none"
           /\ call.outcome \in {"returned", "crashed"}
           /\ call.result = {}
           /\ (call.lessons # <<>> /\ call.ledgerWrite = "ok")
                 => (IndexHolds(call.model, call.lessons)
                        /\ LedgerHolds(call.lessons))

\* C7: a pair of two entries written with one model was found by a call with
\* the other model and a batch of two, which wrote both files
C7_Witness ==
    /\ Called /\ call.outcome = "returned"
    /\ call.seen.index = "ok" /\ call.seen.ledger = "ok"
    /\ call.seen.d # CallDim
    /\ call.seen.ntotal = 2 /\ call.seen.len = 2
    /\ Len(call.lessons) = 2
    /\ call.ledgerWrite = "ok"

C9_PersistFailureRaised ==
    (call.indexWrite = "failed" \/ call.ledgerWrite = "failed")
        => call.outcome = "raised"

\* C10: a call in which encode raises, in the search step or in the update
\* step, ends with an error raised to its caller.
C10_EncodeFailureRaised ==
    (call.encodeSearch = "failed" \/ call.encodeUpdate = "failed")
        => call.outcome = "raised"

\* the pair a call with model m starts from, given the files as they are
Loaded(m) == Load(indexFile, ledgerFile, get_sentence_embedding_dimension(m))

\* C11: a call in which encode raises in the update step writes neither file
\* and leaves both as they were; a call in which encode raises in the search
\* step alone, and in which no write fails and the process does not die,
\* writes both files in full, each holding what was loaded followed by the
\* whole batch.
C11_NoPartialPersist ==
    [][(call.outcome = "idle" /\ call'.outcome # "idle" /\ call'.model \in Models)
        => /\ call'.encodeUpdate = "failed"
                => /\ call'.indexWrite = "none" /\ call'.ledgerWrite = "none"
                   /\ indexFile' = indexFile
                   /\ ledgerFile' = ledgerFile
           /\ (/\ call'.encodeSearch = "failed"
               /\ call'.encodeUpdate = "ok"
               /\ call'.outcome = "returned"
               /\ call'.indexWrite # "failed" /\ call'.ledgerWrite # "failed")
                => /\ call'.indexWrite = "ok" /\ call'.ledgerWrite = "ok"
                   /\ indexFile' =
                        [kind |-> "ok",
                         d |-> get_sentence_embedding_dimension(call'.model),
                         vecs |-> Loaded(call'.model).index.vecs
                                    \o encode(call'.model, call'.lessons)]
                   /\ ledgerFile'.kind = "ok"
                   /\ json_loads(ledgerFile'.data) =
                        [ok |-> TRUE,
                         value |-> Loaded(call'.model).past_lessons_data
                                    \o call'.lessons]]_vars

\* C11: encode raised in the update step of a call with a batch of two on a
\* store of one entry, after the search step of the same call had run
C11_Witness ==
    /\ Called /\ call.encodeUpdate = "failed"
    /\ call.searched
    /\ Len(call.lessons) = 2
    /\ call.loaded.len = 1
    /\ Len(Entries(ledgerFile)) = 1

\* C11: encode raised in the search step alone and the call wrote both files
C11_WitnessSearch ==
    /\ Called /\ call.encodeSearch = "failed" /\ call.encodeUpdate = "ok"
    /\ call.ledgerWrite = "ok"
    /\ Len(Entries(ledgerFile)) = 3

\* C12: a call with a non-empty batch that starts from an index of no vectors
\* (nothing loaded, or the pair just reset) runs no search and returns no
\* context, runs its update step, and, when the update step runs to the end,
\* leaves the index file holding the vectors of the whole batch and the ledger
\* file holding the whole batch.
C12_EmptyIndexNonEmptyBatch ==
    (Called /\ call.loaded.ntotal = 0 /\ call.lessons # <<>>)
        => /\ ~call.searched /\ call.encodeSearch = "none"
           /\ call.result = {}
           /\ call.encodeUpdate # "none"
           /\ call.encodeUpdate = "ok" => call.indexWrite # "none"
           /\ call.ledgerWrite = "ok"
                => (IndexHolds(call.model, call.lessons)
                        /\ LedgerHolds(call.lessons))

\* C12: the first call on an empty store, with a batch of two, wrote both files
C12_Witness ==
    /\ Called /\ call.outcome = "returned"
    /\ call.seen.index = "missing" /\ call.seen.ledger = "missing"
    /\ Len(call.lessons) = 2
    /\ call.ledgerWrite = "ok"
    /\ Len(indexFile.vecs) = 2

\* C14: a call that finds both files, one of them unreadable, ends without an
\* error raised by the load: it starts from an empty index and an empty ledger
\* (neither half is kept), runs no search, returns no context, and each file it
\* writes holds the entries of its batch alone, the index with the dimension of
\* the call's model.
C14_LoadErrorFallback ==
    (/\ Called
     /\ call.seen.index # "missing" /\ call.seen.ledger # "missing"
     /\ (call.seen.index = "corrupt" \/ call.seen.ledger = "corrupt"))
        => /\ call.outcome \in {"returned", "crashed"}
           /\ call.loaded = [ntotal |-> 0, len |-> 0]
           /\ ~call.searched /\ call.encodeSearch = "none"
           /\ call.result = {}
           /\ call.lessons # <<>> => call.encodeUpdate # "none"
           /\ call.indexWrite = "ok" => IndexHolds(call.model, call.lessons)
           /\ call.ledgerWrite = "ok" => LedgerHolds(call.lessons)

\* C14: the index file was readable, with vectors of the call's dimension, the
\* ledger file was not, and the call wrote both files from its batch
C14_Witness ==
    /\ Called /\ call.outcome = "returned"
    /\ call.seen.index = "ok" /\ call.seen.ledger = "corrupt"
    /\ call.seen.ntotal > 0 /\ call.seen.d = CallDim
    /\ call.lessons # <<>>
    /\ call.ledgerWrite = "ok"

\* s is a prefix of t
IsPrefix(s, t) == Len(s) <= Len(t) /\ \A i \in 1..Len(s) : t[i] = s[i]

C13_OutOfRangeSkipped ==
    Called =>
        /\ ~call.resolveRaised
        /\ \A t \in call.result :
              \E p \in call.neighbors :
                  /\ 0 <= p /\ p < Len(call.past)
                  /\ call.past[p + 1] = t

\* C13: the search returned the sentinel and a position past the end of the
\* loaded ledger (the index held more vectors than the ledger held strings),
\* and the call returned the text of the one position in range
C13_Witness ==
    /\ Called /\ call.outcome = "returned" /\ call.searched
    /\ -1 \in call.neighbors
    /\ \E p \in call.neighbors : p >= Len(call.past)
    /\ call.past = <<"a">>
    /\ call.result = {"a"}

\* the sequence s holds no element twice
NoDup(s) == \A i, j \in 1..Len(s) : s[i] = s[j] => i = j

\* C17: the list a call returns holds no string twice.
C17_UniqueContext == NoDup(call.returned)

\* C17: the loaded ledger held "a" at two positions, the search for the one
\* new lesson "b" returned both, and the call returned "a" once
C17_Witness ==
    /\ Called /\ call.outcome = "returned"
    /\ call.lessons = <<"b">>
    /\ call.past = <<"a", "a">>
    /\ {0, 1} \subseteq call.neighbors
    /\ call.returned = <<"a">>

\* C17: two new lessons of a batch had the same neighbour
C17_WitnessSameNeighbor ==
    /\ Called /\ call.outcome = "returned"
    /\ call.lessons = <<"b", "b">>
    /\ call.past = <<"a">>
    /\ call.returned = <<"a">>

\* C18: after a call that wrote both files in full, a load of the two files
\* with the dimension of the same model gives a ledger equal, element by
\* element and in order, to the list the call wrote, and an index of as many
\* vectors as the index the call wrote.
C18_RoundTrip ==
    (Called /\ call.indexWrite = "ok" /\ call.ledgerWrite = "ok")
        => LET pair == Load(indexFile, ledgerFile, CallDim)
           IN  /\ pair.past_lessons_data = call.final.ledger
               /\ ntotal(pair.index) = call.final.ntotal

\* C18: a call wrote a ledger of three entries and an index of three vectors
\* over a pair of one entry
C18_Witness ==
    /\ Called /\ call.outcome = "returned"
    /\ call.indexWrite = "ok" /\ call.ledgerWrite = "ok"
    /\ call.loaded = [ntotal |-> 1, len |-> 1]
    /\ call.final = [ntotal |-> 3, ledger |-> <<"a", "b", "a">>]
    /\ ledgerFile.data = json_dumps(<<"a", "b", "a">>)

\* C18: a call wrote the pair from the empty state
C18_WitnessFromEmpty ==
    /\ Called /\ call.outcome = "returned"
    /\ call.seen.index = "missing" /\ call.seen.ledger = "missing"
    /\ call.ledgerWrite = "ok"
    /\ call.final = [ntotal |-> 2, ledger |-> <<"b", "a">>]

\* an extract_lessons call has been made
Extracted == extraction.outcome # "idle"

\* C19: a call of extract_lessons with no pipeline, with an empty transcript,
\* or in which the pipeline returns a document of no phrases, returns the
\* empty lesson list and the empty keyword list, and raises nothing.
C19_EmptyExtraction ==
    (/\ Extracted
     /\ \/ extraction.nlp_pipeline = "None"
        \/ extraction.transcript_text = ""
        \/ (extraction.called /\ ~extraction.pipelineRaised
              /\ extraction.phrases = <<>>))
        => /\ extraction.outcome = "returned"
           /\ extraction.lessons = <<>>
           /\ extraction.keywords = <<>>

\* C19: the call was made with a transcript and without a pipeline
C19_Witness ==
    /\ Extracted
    /\ extraction.nlp_pipeline = "None"
    /\ extraction.transcript_text = "text"
    /\ extraction.outcome = "returned"

\* C19: the pipeline ran on the transcript and gave no phrases
C19_WitnessNoPhrases ==
    /\ Extracted /\ extraction.called /\ ~extraction.pipelineRaised
    /\ extraction.transcript_text = "text"
    /\ extraction.phrases = <<>>

\* phrase j comes before phrase i when all are ordered by rank descending,
\* phrases of equal rank in the order of the document
Before(phrases, j, i) ==
    \/ phrases[j].rank > phrases[i].rank
    \/ (phrases[j].rank = phrases[i].rank /\ j < i)

\* the place of phrase i in that order, from 1
Place(phrases, i) ==
    1 + Cardinality({j \in 1..Len(phrases) : Before(phrases, j, i)})

\* C20: the lessons a call of extract_lessons returns from a document of n
\* phrases are min(15, n) texts, and the k-th is the text of the phrase whose
\* place is k when the phrases are ordered by rank descending, phrases of
\* equal rank in the order of the document.
C20_TopLessons ==
    (Extracted /\ extraction.outcome = "returned" /\ extraction.called)
        => /\ Len(extraction.lessons) = Min(15, Len(extraction.phrases))
           /\ \A i \in 1..Len(extraction.phrases) :
                 Place(extraction.phrases, i) <= 15
                    => extraction.lessons[Place(extraction.phrases, i)]
                          = extraction.phrases[i].text

\* C20: of 16 phrases the 15th in document order, "x" of rank 2, came eighth
\* after the seven of rank 2 before it, and the 16th, "y" of rank 1, was cut
C20_Witness ==
    /\ Extracted /\ extraction.outcome = "returned"
    /\ Len(extraction.phrases) = 16
    /\ extraction.phrases[15].text = "x" /\ extraction.phrases[15].rank = 2
    /\ extraction.phrases[16].text = "y" /\ extraction.phrases[16].rank = 1
    /\ Len(extraction.lessons) = 15
    /\ extraction.lessons[8] = "x"
    /\ ~InList("y", extraction.lessons)

\* the pool processes that are inside build_context
InBuildContext == {w \in WorkerProcesses : celery.pool[w].pc = "build_context"}

\* C16: at no time are two executions of build_context in progress on the
\* index and ledger paths.
C16_SingleWriter == Cardinality(InBuildContext) <= 1

\* kw is the lower-cased lemma of a token, neither stopword nor punctuation,
\* of a chunk of a phrase of the document whose text is a returned lesson
FromTopLesson(kw) ==
    \E i \in 1..Len(extraction.phrases) :
        /\ InList(extraction.phrases[i].text, extraction.lessons)
        /\ \E c \in 1..Len(extraction.phrases[i].chunks) :
           \E j \in 1..Len(extraction.phrases[i].chunks[c]) :
              LET token == extraction.phrases[i].chunks[c][j]
              IN  /\ ~token.is_stop /\ ~token.is_punct
                  /\ kw = lower(token.lemma_)

\* C21: the keyword list a call of extract_lessons returns holds no keyword
\* twice and at most 30 keywords, and each is the lower-cased lemma of a
\* token, neither stopword nor punctuation, of a chunk of a phrase whose text
\* is one of the returned lessons.
C21_KeywordSet ==
    (Extracted /\ extraction.outcome = "returned")
        => /\ NoDup(extraction.keywords)
           /\ Len(extraction.keywords) <= 30
           /\ \A k \in 1..Len(extraction.keywords) :
                 FromTopLesson(extraction.keywords[k])

\* C21: the lessons gave more than 30 keywords ("run" from the token "Run"
\* among them, found in two phrases) and 30 were returned
C21_Witness ==
    /\ Extracted /\ extraction.outcome = "returned"
    /\ Len(extraction.keywords) = 30
    /\ InList("run", extraction.keywords)
    /\ \E i \in 1..Len(extraction.phrases) :
          extraction.phrases[i].chunks
             = << <<Word("Run"), Stop("the"), Punct(",")>> >>
    /\ Cardinality(UNION {UNION {{lower(c[j].lemma_) : j \in 1..Len(c)} :
                 c \in {extraction.phrases[i].chunks[n] :
                          n \in 1..Len(extraction.phrases[i].chunks)}} :
             i \in 1..Len(extraction.phrases)} \ {"", "the", ","}) > 30

(***************************************************************************)
(* generate_tts.                                                           *)
(***************************************************************************)
\* the last generate_tts call ended and the library raised nothing in it
SpeechSucceeded ==
    /\ tts.outcome # "idle"
    /\ tts.constructor = NoException
    /\ tts.save = NoException

\* C22: on the success path generate_tts constructs gTTS exactly once with
\* text=text, lang=language (or 'en' when no language is given) and
\* slow=False, and then calls save exactly once with the given output path
C22_SuccessPath ==
    SpeechSucceeded
        => /\ tts.outcome = "returned"
           /\ tts.calls =
                 <<[fn |-> "gTTS", text |-> tts.text,
                    lang |-> IF tts.language = <<>> THEN "en"
                             ELSE tts.language[1],
                    slow |-> FALSE, path |-> ""],
                   [fn |-> "save", text |-> "", lang |-> "", slow |-> FALSE,
                    path |-> tts.output_path]>>

\* a successful call with a language of its own
C22_Witness ==
    /\ SpeechSucceeded
    /\ tts.language = <<"es">>
    /\ tts.text = "Hola"

\* a successful call that leaves the language out
C22_WitnessDefault ==
    /\ SpeechSucceeded
    /\ tts.language = <<>>
    /\ Len(tts.calls) = 2

\* the exception of the last generate_tts call, raised by the constructor or,
\* after the constructor returned, by save
SpeechError ==
    IF tts.constructor # NoException THEN tts.constructor ELSE tts.save

\* C23: an exception (an instance of Exception) raised by the gTTS
\* constructor or by save is not propagated: generate_tts prints
\* 'An error occurred: <exception text>' and returns, and when the
\* constructor raised, save was not called
C23_ErrorPath ==
    (/\ tts.outcome # "idle"
     /\ SpeechError # NoException
     /\ SpeechError.class # "KeyboardInterrupt")
        => /\ tts.outcome = "returned"
           /\ tts.raised = NoException
           /\ \E msg \in {"gTTS initialization failed", "Language not supported",
                          "'lang'", "Permission denied", ""} :
                 /\ msg = str(SpeechError)
                 /\ tts.stdout = <<"An error occurred: " \o msg>>
           /\ tts.constructor # NoException
                 => \A i \in 1..Len(tts.calls) : tts.calls[i].fn # "save"

\* the constructor raised
C23_Witness ==
    /\ tts.outcome = "returned"
    /\ tts.constructor.class = "Exception"
    /\ tts.stdout = <<"An error occurred: gTTS initialization failed">>

\* save raised
C23_WitnessSave ==
    /\ tts.outcome = "returned"
    /\ tts.constructor = NoException
    /\ tts.save.class = "OSError"
    /\ tts.stdout = <<"An error occurred: Permission denied">>
    /\ Len(tts.calls) = 2

(***************************************************************************)
(* fetch_latest_episode.                                                   *)
(***************************************************************************)
\* the last fetch_latest_episode call returned an audio URL and a title
EpisodeReturned ==
    /\ rss.call.outcome = "returned"
    /\ rss.call.audio_url # ""

\* C24: at-most-once episode selection: the ID of an episode a call returns
\* is in the processed-IDs file when the call returns and was not returned by
\* an earlier call on the same file; entries without an ID or without an
\* audio enclosure are skipped and their IDs are not recorded
C24_AtMostOnce ==
    /\ EpisodeReturned
          => /\ rss.call.episode_id \in ProcessedIds(rss.fs)
             /\ rss.call.episode_id \notin rss.returned
    /\ rss.call.outcome = "returned"
          => /\ ProcessedIds(rss.fs) \subseteq
                   rss.call.before \cup {rss.call.episode_id}
             /\ "ep3" \notin ProcessedIds(rss.fs)
             /\ "" \notin ProcessedIds(rss.fs)

\* the part of C24 that holds: whenever the processed-IDs file is written in
\* full, the returned ID is in it, and the skipped entries never are
C24_RecordedWhenWritten ==
    /\ (EpisodeReturned /\ rss.fs.file.kind = "ok"
           /\ rss.call.before # ProcessedIds(rss.fs))
          => rss.call.episode_id \in ProcessedIds(rss.fs)
    /\ rss.call.outcome = "returned"
          => /\ "ep3" \notin ProcessedIds(rss.fs)
             /\ "" \notin ProcessedIds(rss.fs)

\* an episode is returned a second time
C24_ReturnedAgain ==
    /\ EpisodeReturned
    /\ rss.call.episode_id \in rss.returned

(***************************************************************************)
(* run_pipeline.                                                           *)
(***************************************************************************)
\* the result of a step with which run_pipeline sets step_k_success
Succeeded(result) == result \in {"ok", "empty", "skipped"}

\* C25: the steps run in the order 1..5; a step starts only if every earlier
\* step succeeded; a failed result or an exception in steps 1-4 ends the run
\* with no later step; build_context is called only after a non-empty
\* transcript was read and the NLP pipeline and the sentence model were
\* loaded; a failure in step 5 does not raise out of run_pipeline
C25_StepGating ==
    /\ \A i \in 1..Len(run.started) : run.started[i] = i
    /\ Len(run.started) <= 5
    /\ Len(run.results) <= Len(run.started)
    /\ \A k \in 1..Len(run.started) :
          \A j \in 1..(k - 1) : Succeeded(run.results[j])
    /\ \A k \in 1..Len(run.results) :
          (k <= 4 /\ ~Succeeded(run.results[k]))
              => /\ run.pc \in {"returned", "done"}
                 /\ Len(run.started) = k
    /\ run.build_context_called
          => /\ run.transcript = "text"
             /\ run.nlp
             /\ run.sentence_model
    /\ (Len(run.results) = 5 /\ run.results[5] \in {"None", "raise"})
          => ~run.raised

\* a run that halted at step 3 after two steps that succeeded
C25_Witness ==
    /\ run.pc = "returned"
    /\ run.started = <<1, 2, 3>>
    /\ run.results = <<"ok", "ok", "None">>

\* a run whose step 5 raised an exception and that went on to its end
C25_WitnessArt ==
    /\ run.pc = "returned"
    /\ run.started = <<1, 2, 3, 4, 5>>
    /\ run.results[5] = "raise"
    /\ run.build_context_called

\* step 1 of the run gave an episode
EpisodeChosen ==
    /\ Len(run.results) >= 1
    /\ run.results[1] = "ok"

\* C26: the episode chosen in step 1 is recorded as processed when step 2
\* begins; an episode of a run that halted in audio processing, transcription
\* or NLP analysis is not chosen by a later run, and its lessons are never
\* given to build_context
C26_NoRetry ==
    /\ run.pc = "step2" => run.episode_id \in ProcessedIds(rss.fs)
    /\ EpisodeChosen => run.episode_id \notin run.haltedEpisodes
    /\ run.haltedEpisodes \cap run.context = {}

\* run_pipeline ended at a step 1-4 that failed: a falsy result, an
\* exception, or a missing setting ("none" is a run with no new episode)
HaltedAtFailedStep ==
    /\ run.halted \in 1..4
    /\ run.results[run.halted] \in {"None", "raise", "misconfigured"}

\* C27: the task reports SUCCESS with 'Pipeline completed successfully.' only
\* for runs in which run_pipeline did not halt at a failed step, and a run
\* that fails is reported FAILURE
C27_StatusReflectsOutcome ==
    run.pc = "done"
        => /\ run.status \in {"SUCCESS", "FAILURE"}
           /\ run.status = "SUCCESS"
                 => /\ run.status_message = "Pipeline completed successfully."
                    /\ ~HaltedAtFailedStep
           /\ HaltedAtFailedStep => run.status = "FAILURE"

\* the one way to FAILURE: run_pipeline itself raised
C27_FailureOnlyWhenRaised ==
    run.pc = "done" => (run.status = "FAILURE" <=> run.raised)

\* run_pipeline came to its last lines
EndReached ==
    /\ run.pc \in {"returned", "done"}
    /\ run.halted = 0
    /\ ~run.raised

\* C28: the overall task is advanced once per successful step; when all five
\* steps succeeded its description is 'Overall Pipeline Completed
\* Successfully!', and when the end is reached with fewer than five it is
\* 'Overall Pipeline Halted Early'
C28_FinalStatus ==
    /\ run.advances = Cardinality(run.successes)
    /\ run.halted = 0 => run.overall.completed = run.advances
    /\ (EndReached /\ run.successes = 1..5)
          => run.overall.description = "Overall Pipeline Completed Successfully!"
    /\ (EndReached /\ run.successes # 1..5)
          => run.overall.description = "Overall Pipeline Halted Early"

\* the parts of C28 that hold: one advance per successful step, and the
\* description of a run that reached the end with fewer than five
C28_HaltedEarly ==
    /\ run.advances = Cardinality(run.successes)
    /\ run.halted = 0 => run.overall.completed = run.advances
    /\ (EndReached /\ run.successes # 1..5)
          => run.overall.description = "Overall Pipeline Halted Early"

\* no run ever gets the description of success
C28_NeverCompletedSuccessfully ==
    run.overall.description # "Overall Pipeline Completed Successfully!"

(***************************************************************************)
(* The legacy NLPAnalyzer.build_context.                                   *)
(***************************************************************************)
\* C29: every related lesson the legacy build_context returns is the ledger
\* line at a position p, 0 <= p < number of stored past lessons, that the
\* search gave as a real neighbor; with fewer than 3 past embeddings stored
\* the sentinel -1 of the search yields no lesson
C29_ValidNeighborsOnly ==
    legacyContext.call.outcome = "returned"
        => LET c == legacyContext.call
           IN  /\ Len(c.related_lessons) = Len(c.positions)
               /\ \A i \in 1..Len(c.positions) :
                     /\ 0 <= c.positions[i]
                     /\ c.positions[i] < Len(c.past_lessons)
                     /\ c.related_lessons[i] = c.past_lessons[c.positions[i] + 1]
               /\ c.stored < 3 => \A i \in 1..Len(c.positions) :
                                     c.positions[i] # -1

\* a call with one past lesson stored: the two sentinels give the last line
C29_SentinelYieldsLesson ==
    /\ legacyContext.call.outcome = "returned"
    /\ legacyContext.call.stored = 1
    /\ legacyContext.call.row = <<0, -1, -1>>
    /\ Len(legacyContext.call.related_lessons) = 3

(***************************************************************************)
(* The legacy main().                                                      *)
(***************************************************************************)
\* the episode the run before fetched is still the first entry of the feed
StillFirst ==
    /\ legacyMain.call.outcome # "idle"
    /\ legacyMain.previous.latest_episode # ""
    /\ legacyMain.call.first = legacyMain.previous.latest_episode

\* C30: mark_as_processed is executed only if every step before it returned
\* without an exception; after a run that failed at one of these steps the
\* next fetch_latest_episode returns the same episode again, and after a run
\* that succeeded it returns None while that episode is still the first
\* entry of the feed
C30_MarkedOnlyAfterSuccess ==
    /\ legacyMain.call.marked
          => /\ legacyMain.call.steps = 12
             /\ legacyMain.call.failed \in {"", "mark_as_processed"}
    /\ (legacyMain.call.failed # "" /\ ~legacyMain.call.marked)
          => legacyMain.call.latest_episode
                \notin ProcessedIds([file |-> legacyMain.processed_file])
    /\ (StillFirst /\ legacyMain.previous.result = "failed")
          => /\ legacyMain.call.outcome = "returned"
             /\ legacyMain.call.latest_episode
                   = legacyMain.previous.latest_episode
    /\ (StillFirst /\ legacyMain.previous.result = "succeeded")
          => /\ legacyMain.call.outcome = "returned"
             /\ legacyMain.call.latest_episode = ""
             /\ legacyMain.call.steps = 0

\* a run after a run that failed at a step: it fetched the same episode again,
\* got through the steps and marked it
C30_Witness ==
    /\ StillFirst
    /\ legacyMain.previous.result = "failed"
    /\ legacyMain.call.latest_episode = "ep2"
    /\ legacyMain.call.marked
    /\ legacyMain.call.failed = ""

\* a run after a run that succeeded, with the same first entry
C30_WitnessNone ==
    /\ StillFirst
    /\ legacyMain.previous.result = "succeeded"
    /\ Len(legacyMain.feed) = 2

====
